---- MODULE Spec2Model ----
(***************************************************************************)
(* Health Star Rating engine of ecodish365                                 *)
(* (backend/hsr_calculator/hsr): Food and Meal construction, the           *)
(* ThresholdProvider, and HSRCalculator.                                   *)
(*                                                                         *)
(* Numbers.  The program computes in Python floats.  The model computes in *)
(* exact rationals: a number is a record [n |-> numerator,                 *)
(* d |-> denominator] with d > 0, and float('inf') is [n |-> 1, d |-> 0].  *)
(* Python's int(x) on a float is truncation toward zero (IntTrunc).        *)
(* Points, scores and counts, which the program keeps as ints, are         *)
(* integers.                                                               *)
(***************************************************************************)
EXTENDS Integers, Sequences, FiniteSets, TLC

VARIABLES
    BASE,        \* ThresholdProvider's class-level threshold lists
    foods,       \* the Food objects handed to Meal(...), in order
    categoryArg, \* Meal(..., category=...): a Category or None
    meal,        \* the Meal object (NoMeal before construction)
    calcs,       \* the HSRCalculator objects built for the meal, in order
    results,     \* what the calculate_hsr() calls so far returned, in order
    error,       \* the exception that ended the request, or None
    fn,          \* the function SpecFn calls on its own (None under Spec)
    args,        \* its arguments
    ret          \* the values its calls have returned so far, in order

vars == <<BASE, foods, categoryArg, meal, calcs, results, error, fn, args, ret>>

None == "None"

-----------------------------------------------------------------------------
(* Exact rational arithmetic *)

Abs(i) == IF i < 0 THEN -i ELSE i

RECURSIVE Gcd(_, _)
Gcd(a, b) == IF b = 0 THEN a ELSE Gcd(b, a % b)

\* the rational n/d in lowest terms, d > 0
Q(n, d) ==
    LET g == Gcd(Abs(n), Abs(d))
        s == IF d < 0 THEN -1 ELSE 1
    IN  [n |-> s * (n \div g), d |-> s * (d \div g)]

I(i) == [n |-> i, d |-> 1]
INF == [n |-> 1, d |-> 0]

\* an/ad < bn/bd for ad, bd > 0, by comparing the continued fractions, so
\* that no product is formed
RECURSIVE LtFrac(_, _, _, _)
LtFrac(an, ad, bn, bd) ==
    IF an \div ad # bn \div bd THEN an \div ad < bn \div bd
    ELSE IF bn % bd = 0 THEN FALSE
    ELSE IF an % ad = 0 THEN TRUE
    ELSE LtFrac(bd, bn % bd, ad, an % ad)

\* numbers are kept in lowest terms, so equal numbers are equal records
Eq(a, b) == a = b
Lt(a, b) == IF a.d = 0 THEN FALSE
            ELSE IF b.d = 0 THEN TRUE
            ELSE LtFrac(a.n, a.d, b.n, b.d)
Le(a, b) == Eq(a, b) \/ Lt(a, b)
AddOver(a, b, g) == Q(a.n * (b.d \div g) + b.n * (a.d \div g), a.d * (b.d \div g))
Add(a, b) == AddOver(a, b, Gcd(a.d, b.d))
Sub(a, b) == Add(a, [n |-> -b.n, d |-> b.d])
MulOver(a, b, g1, g2) == Q((a.n \div g1) * (b.n \div g2), (a.d \div g2) * (b.d \div g1))
Mul(a, b) == MulOver(a, b, Gcd(Abs(a.n), b.d), Gcd(Abs(b.n), a.d))
Div(a, b) == Mul(a, IF b.n < 0 THEN [n |-> -b.d, d |-> -b.n] ELSE [n |-> b.d, d |-> b.n])
MaxQ(a, b) == IF Lt(a, b) THEN b ELSE a
MinQ(a, b) == IF Lt(b, a) THEN b ELSE a

\* Python's int(x): truncation toward zero
IntTrunc(x) == IF x.n >= 0 THEN x.n \div x.d ELSE -((-x.n) \div x.d)

\* [f(list[1]), ..., f(list[n])]: a list comprehension over a list
Ints(list) == [i \in DOMAIN list |-> I(list[i])]

-----------------------------------------------------------------------------
(* models/category.py *)

BEVERAGE == "BEVERAGE"
DAIRY_BEVERAGE == "DAIRY_BEVERAGE"
FOOD == "FOOD"
DAIRY_FOOD == "DAIRY_FOOD"
OILS_AND_SPREADS == "OILS_AND_SPREADS"
CHEESE == "CHEESE"

\* in the order the enum declares its members
Category == <<BEVERAGE, DAIRY_BEVERAGE, FOOD, DAIRY_FOOD, OILS_AND_SPREADS, CHEESE>>
Categories == {Category[i] : i \in DOMAIN Category}

\* Category.value
CategoryValue(category) ==
    CASE category = BEVERAGE -> "1"
      [] category = DAIRY_BEVERAGE -> "1D"
      [] category = FOOD -> "2"
      [] category = DAIRY_FOOD -> "2D"
      [] category = OILS_AND_SPREADS -> "3"
      [] category = CHEESE -> "3D"

-----------------------------------------------------------------------------
(* providers/threshold_provider.py: ThresholdProvider *)

ENERGY_DENSITY_THRESHOLDS == <<0, 50, 100, 150, 200, 250, 300, 400, 500, 600, 700>>
NATURAL_SUGAR_THRESHOLDS == <<0, 5, 8, 12, 15, 18, 22, 25, 28, 32, 35>>
ADDED_SUGAR_THRESHOLDS == <<0, 1, 2, 3, 4, 5, 6, 8, 10, 12, 15>>
SATURATED_FAT_THRESHOLDS == <<0, 1, 2, 3, 4, 5, 7, 9, 12, 15, 20>>
SODIUM_THRESHOLDS == <<0, 100, 200, 300, 400, 500, 600, 800, 1000, 1200, 1500>>
FVNL_THRESHOLDS == <<0, 25, 40, 50, 60, 67, 75, 80, 90, 95, 100>>
PROTEIN_THRESHOLDS == <<0, 3, 6, 10, 15, 20, 25, 30, 35, 40, 50>>
FIBER_THRESHOLDS == <<0, 1, 2, 3, 4, 5, 6, 8, 10, 12, 15>>
STAR_RATING_THRESHOLDS == <<-10, -5, 0, 5, 10, 15, 20, 25, 30, 35, 40>>

\* the class attributes as the class body leaves them
BaseConstants ==
    [ENERGY_DENSITY_THRESHOLDS |-> Ints(ENERGY_DENSITY_THRESHOLDS),
     NATURAL_SUGAR_THRESHOLDS  |-> Ints(NATURAL_SUGAR_THRESHOLDS),
     ADDED_SUGAR_THRESHOLDS    |-> Ints(ADDED_SUGAR_THRESHOLDS),
     SATURATED_FAT_THRESHOLDS  |-> Ints(SATURATED_FAT_THRESHOLDS),
     SODIUM_THRESHOLDS         |-> Ints(SODIUM_THRESHOLDS),
     FVNL_THRESHOLDS           |-> Ints(FVNL_THRESHOLDS),
     PROTEIN_THRESHOLDS        |-> Ints(PROTEIN_THRESHOLDS),
     FIBER_THRESHOLDS          |-> Ints(FIBER_THRESHOLDS),
     STAR_RATING_THRESHOLDS    |-> Ints(STAR_RATING_THRESHOLDS)]

\* dataclass NutritionalContext with its defaults
DefaultContext ==
    [is_natural_sugar_dominant |-> FALSE,
     has_added_sugars          |-> FALSE,
     satiety_index             |-> I(1),
     processing_level          |-> "minimally_processed",
     liquid_percentage         |-> I(0),
     fiber_density             |-> I(0),
     protein_quality_score     |-> I(1),
     fvnl_naturalness          |-> I(1)]

\* the scaled list without int()
ScaleInt_exact(list, factor) == [i \in DOMAIN list |-> Mul(list[i], factor)]

\* [int(threshold * factor) for threshold in list]
ScaleInt(list, factor) == [i \in DOMAIN list |-> I(IntTrunc(Mul(list[i], factor)))]

_apply_contextual_adjustments(thresholds, context) ==
    LET t1 == IF ~Eq(context.satiety_index, I(1))
              THEN [thresholds EXCEPT !.energy_density =
                        ScaleInt(@, context.satiety_index)]
              ELSE thresholds
        t2 == IF context.processing_level = "ultra_processed"
              THEN [t1 EXCEPT !.sugar_added = ScaleInt(@, Q(8, 10))]
              ELSE t1
        liquid_factor == Sub(I(1), Mul(context.liquid_percentage, Q(3, 10)))
        t3 == IF Lt(Q(3, 10), context.liquid_percentage)
              THEN [t2 EXCEPT !.energy_density = ScaleInt(@, liquid_factor),
                              !.sugar_natural = ScaleInt(@, liquid_factor)]
              ELSE t2
        t4 == IF Lt(I(1), context.protein_quality_score)
              THEN [t3 EXCEPT !.protein =
                        [i \in DOMAIN @ |->
                            I(IntTrunc(Div(@[i], context.protein_quality_score)))]]
              ELSE t3
    IN  t4

\* the CHEESE adjustment with abs(threshold - 2) in place of max(0, threshold - 2)
_apply_category_adjustments_abs(thresholds, category) ==
    IF category = CHEESE
    THEN [thresholds EXCEPT !.protein =
              [i \in DOMAIN @ |->
                  IF Lt(@[i], I(2)) THEN Sub(I(2), @[i]) ELSE Sub(@[i], I(2))]]
    ELSE IF category \in {BEVERAGE, DAIRY_BEVERAGE}
    THEN [thresholds EXCEPT !.fiber = [i \in DOMAIN @ |-> INF]]
    ELSE IF category = OILS_AND_SPREADS
    THEN [thresholds EXCEPT !.energy_density =
              [i \in DOMAIN @ |-> Add(@[i], I(50))]]
    ELSE thresholds

_apply_category_adjustments(thresholds, category) ==
    IF category = CHEESE
    THEN [thresholds EXCEPT !.protein =
              [i \in DOMAIN @ |-> MaxQ(I(0), Sub(@[i], I(2)))]]
    ELSE IF category \in {BEVERAGE, DAIRY_BEVERAGE}
    THEN [thresholds EXCEPT !.fiber = [i \in DOMAIN @ |-> INF]]
    ELSE IF category = OILS_AND_SPREADS
    THEN [thresholds EXCEPT !.energy_density =
              [i \in DOMAIN @ |-> Add(@[i], I(50))]]
    ELSE thresholds

\* nutritional_context = None
NoContext == [none |-> TRUE]

\* get_thresholds with the natural and the added sugar lists taken for each other
get_thresholds_swapped_sugar(base, category, nutritional_context) ==
    LET t0 == [energy_density |-> base.ENERGY_DENSITY_THRESHOLDS,
               sugar_natural  |-> base.ADDED_SUGAR_THRESHOLDS,
               sugar_added    |-> base.NATURAL_SUGAR_THRESHOLDS,
               saturated_fat  |-> base.SATURATED_FAT_THRESHOLDS,
               sodium         |-> base.SODIUM_THRESHOLDS,
               fvnl           |-> base.FVNL_THRESHOLDS,
               protein        |-> base.PROTEIN_THRESHOLDS,
               fiber          |-> base.FIBER_THRESHOLDS,
               star_rating    |-> base.STAR_RATING_THRESHOLDS,
               base_stars     |-> I(0)]
    IN  [thresholds |->
             _apply_category_adjustments(
                 IF nutritional_context # NoContext
                 THEN _apply_contextual_adjustments(t0, nutritional_context)
                 ELSE t0,
                 category),
         base |-> base]

\* get_thresholds adjusting the class lists themselves instead of copies
get_thresholds_in_place(base, category, nutritional_context) ==
    LET t0 == [energy_density |-> base.ENERGY_DENSITY_THRESHOLDS,
               sugar_natural  |-> base.NATURAL_SUGAR_THRESHOLDS,
               sugar_added    |-> base.ADDED_SUGAR_THRESHOLDS,
               saturated_fat  |-> base.SATURATED_FAT_THRESHOLDS,
               sodium         |-> base.SODIUM_THRESHOLDS,
               fvnl           |-> base.FVNL_THRESHOLDS,
               protein        |-> base.PROTEIN_THRESHOLDS,
               fiber          |-> base.FIBER_THRESHOLDS,
               star_rating    |-> base.STAR_RATING_THRESHOLDS,
               base_stars     |-> I(0)]
        adjusted == _apply_category_adjustments(
                        IF nutritional_context # NoContext
                        THEN _apply_contextual_adjustments(t0, nutritional_context)
                        ELSE t0,
                        category)
    IN  [thresholds |-> adjusted,
         base |-> [base EXCEPT !.ENERGY_DENSITY_THRESHOLDS = adjusted.energy_density,
                               !.NATURAL_SUGAR_THRESHOLDS = adjusted.sugar_natural,
                               !.ADDED_SUGAR_THRESHOLDS = adjusted.sugar_added,
                               !.PROTEIN_THRESHOLDS = adjusted.protein,
                               !.FIBER_THRESHOLDS = adjusted.fiber]]

\* get_thresholds leaving the adjusted energy thresholds in the class list
get_thresholds_energy_in_place(base, category, nutritional_context) ==
    LET t0 == [energy_density |-> base.ENERGY_DENSITY_THRESHOLDS,
               sugar_natural  |-> base.NATURAL_SUGAR_THRESHOLDS,
               sugar_added    |-> base.ADDED_SUGAR_THRESHOLDS,
               saturated_fat  |-> base.SATURATED_FAT_THRESHOLDS,
               sodium         |-> base.SODIUM_THRESHOLDS,
               fvnl           |-> base.FVNL_THRESHOLDS,
               protein        |-> base.PROTEIN_THRESHOLDS,
               fiber          |-> base.FIBER_THRESHOLDS,
               star_rating    |-> base.STAR_RATING_THRESHOLDS,
               base_stars     |-> I(0)]
        adjusted == _apply_category_adjustments(
                        IF nutritional_context # NoContext
                        THEN _apply_contextual_adjustments(t0, nutritional_context)
                        ELSE t0,
                        category)
    IN  [thresholds |-> adjusted,
         base |-> [base EXCEPT !.ENERGY_DENSITY_THRESHOLDS = adjusted.energy_density]]

\* get_thresholds with the category adjustment made before the contextual ones
get_thresholds_category_first(base, category, nutritional_context) ==
    LET t0 == [energy_density |-> base.ENERGY_DENSITY_THRESHOLDS,
               sugar_natural  |-> base.NATURAL_SUGAR_THRESHOLDS,
               sugar_added    |-> base.ADDED_SUGAR_THRESHOLDS,
               saturated_fat  |-> base.SATURATED_FAT_THRESHOLDS,
               sodium         |-> base.SODIUM_THRESHOLDS,
               fvnl           |-> base.FVNL_THRESHOLDS,
               protein        |-> base.PROTEIN_THRESHOLDS,
               fiber          |-> base.FIBER_THRESHOLDS,
               star_rating    |-> base.STAR_RATING_THRESHOLDS,
               base_stars     |-> I(0)]
        t1 == _apply_category_adjustments(t0, category)
    IN  [thresholds |-> IF nutritional_context # NoContext
                        THEN _apply_contextual_adjustments(t1, nutritional_context)
                        ELSE t1,
         base       |-> base]

\* get_thresholds copies every class list (.copy()) into a new HSRThresholds and
\* every adjustment builds a new list, so the call returns the thresholds and
\* leaves the class lists as they were: [thresholds, base after the call].
get_thresholds(base, category, nutritional_context) ==
    LET t0 == [energy_density |-> base.ENERGY_DENSITY_THRESHOLDS,
               sugar_natural  |-> base.NATURAL_SUGAR_THRESHOLDS,
               sugar_added    |-> base.ADDED_SUGAR_THRESHOLDS,
               saturated_fat  |-> base.SATURATED_FAT_THRESHOLDS,
               sodium         |-> base.SODIUM_THRESHOLDS,
               fvnl           |-> base.FVNL_THRESHOLDS,
               protein        |-> base.PROTEIN_THRESHOLDS,
               fiber          |-> base.FIBER_THRESHOLDS,
               star_rating    |-> base.STAR_RATING_THRESHOLDS,
               base_stars     |-> I(0)]
        t1 == IF nutritional_context # NoContext
              THEN _apply_contextual_adjustments(t0, nutritional_context)
              ELSE t0
    IN  [thresholds |-> _apply_category_adjustments(t1, category),
         base       |-> base]

-----------------------------------------------------------------------------
(* calculators/hsr_calculator.py: threshold lookup *)

\* bisect.bisect_left(a, x): lo = 0, hi = len(a), indices from 0
RECURSIVE bisect_loop(_, _, _, _)
bisect_loop(a, x, lo, hi) ==
    IF lo < hi
    THEN LET mid == (lo + hi) \div 2
         IN  IF Lt(a[mid + 1], x)
             THEN bisect_loop(a, x, mid + 1, hi)
             ELSE bisect_loop(a, x, lo, mid)
    ELSE lo

\* bisect.bisect_right(a, x) of a sorted list: the insertion point after the
\* entries equal to x
bisect_right(a, x) == Cardinality({i \in DOMAIN a : Le(a[i], x)})

bisect_left(a, x) == bisect_loop(a, x, 0, Len(a))

Min(i, j) == IF i < j THEN i ELSE j
Max(i, j) == IF i > j THEN i ELSE j

\* the lookup without min(..., len(thresholds) - 1)
_get_points_by_thresholds_unclamped(value, thresholds) ==
    IF thresholds = <<>> \/ Eq(thresholds[1], INF)
    THEN 0
    ELSE bisect_left(thresholds, value)

_get_points_by_thresholds(value, thresholds) ==
    IF thresholds = <<>> \/ Eq(thresholds[1], INF)
    THEN 0
    ELSE Min(bisect_left(thresholds, value), Len(thresholds) - 1)

-----------------------------------------------------------------------------
(* Strings.  A str is the sequence of its characters, so that str.lower(),   *)
(* the substring test (kw in text) and the regular expression \bkw\b are     *)
(* computed on the characters.                                               *)

UpperCase ==
    <<"A","B","C","D","E","F","G","H","I","J","K","L","M",
      "N","O","P","Q","R","S","T","U","V","W","X","Y","Z">>
LowerCase ==
    <<"a","b","c","d","e","f","g","h","i","j","k","l","m",
      "n","o","p","q","r","s","t","u","v","w","x","y","z">>
Digits == {"0","1","2","3","4","5","6","7","8","9"}

\* str.lower()
lower(text) ==
    [k \in DOMAIN text |->
        IF \E i \in DOMAIN UpperCase : UpperCase[i] = text[k]
        THEN LowerCase[CHOOSE i \in DOMAIN UpperCase : UpperCase[i] = text[k]]
        ELSE text[k]]

\* kw in text
Contains(text, kw) ==
    \E i \in 1..(Len(text) - Len(kw) + 1) :
        \A j \in 1..Len(kw) : text[i + j - 1] = kw[j]

\* any(kw in text for kw in kws)
ContainsAny(text, kws) == \E kw \in kws : Contains(text, kw)

\* the characters \w matches
WordChars ==
    {UpperCase[i] : i \in DOMAIN UpperCase} \cup {LowerCase[i] : i \in DOMAIN LowerCase}
        \cup Digits \cup {"_"}

\* \b between text[k - 1] and text[k]
WordBoundary(text, k) ==
    LET w(m) == m \in DOMAIN text /\ text[m] \in WordChars
    IN  w(k - 1) # w(k)

\* re.search(r'\b' + re.escape(kw) + r'\b', text, re.IGNORECASE)
SearchWord(text, kw) ==
    \E i \in 1..(Len(text) - Len(kw) + 1) :
        /\ \A j \in 1..Len(kw) : lower(text)[i + j - 1] = lower(kw)[j]
        /\ WordBoundary(text, i)
        /\ WordBoundary(text, i + Len(kw))

-----------------------------------------------------------------------------
(* utils/food_group_mapper.py: FoodGroupMapper *)

\* FOOD_GROUP_MAPPINGS.get(food_group_id, Category.FOOD)
FOOD_GROUP_MAPPINGS(food_group_id) ==
    IF food_group_id = 1 THEN DAIRY_FOOD
    ELSE IF food_group_id = 4 THEN OILS_AND_SPREADS
    ELSE IF food_group_id = 14 THEN BEVERAGE
    ELSE FOOD

CHEESE_KEYWORDS ==
    {<<"c","h","e","e","s","e">>, <<"c","h","e","d","d","a","r">>,
     <<"m","o","z","z","a","r","e","l","l","a">>,
     <<"p","a","r","m","e","s","a","n">>, <<"b","r","i","e">>,
     <<"c","a","m","e","m","b","e","r","t">>, <<"g","o","u","d","a">>,
     <<"s","w","i","s","s">>, <<"b","l","u","e">>, <<"f","e","t","a">>,
     <<"c","o","t","t","a","g","e"," ","c","h","e","e","s","e">>,
     <<"c","r","e","a","m"," ","c","h","e","e","s","e">>,
     <<"r","i","c","o","t","t","a">>, <<"p","r","o","v","o","l","o","n","e">>,
     <<"g","r","u","y","e","r","e">>}

BEVERAGE_KEYWORDS ==
    {<<"j","u","i","c","e">>, <<"d","r","i","n","k">>,
     <<"b","e","v","e","r","a","g","e">>, <<"s","o","d","a">>,
     <<"c","o","l","a">>, <<"w","a","t","e","r">>, <<"t","e","a">>,
     <<"c","o","f","f","e","e">>, <<"s","m","o","o","t","h","i","e">>,
     <<"s","h","a","k","e">>, <<"l","e","m","o","n","a","d","e">>,
     <<"c","o","c","k","t","a","i","l">>, <<"b","e","e","r">>,
     <<"w","i","n","e">>, <<"a","l","c","o","h","o","l">>}

DAIRY_BEVERAGE_KEYWORDS ==
    {<<"m","i","l","k">>, <<"y","o","g","u","r","t"," ","d","r","i","n","k">>,
     <<"k","e","f","i","r">>, <<"b","u","t","t","e","r","m","i","l","k">>,
     <<"c","h","o","c","o","l","a","t","e"," ","m","i","l","k">>,
     <<"f","l","a","v","o","u","r","e","d"," ","m","i","l","k">>,
     <<"m","i","l","k"," ","s","h","a","k","e">>,
     <<"d","a","i","r","y"," ","d","r","i","n","k">>}

OIL_SPREAD_KEYWORDS ==
    {<<"o","i","l">>, <<"b","u","t","t","e","r">>,
     <<"m","a","r","g","a","r","i","n","e">>, <<"s","p","r","e","a","d">>,
     <<"s","h","o","r","t","e","n","i","n","g">>, <<"l","a","r","d">>,
     <<"g","h","e","e">>, <<"c","o","o","k","i","n","g"," ","f","a","t">>,
     <<"v","e","g","e","t","a","b","l","e"," ","o","i","l">>,
     <<"o","l","i","v","e"," ","o","i","l">>}


\* the keyword test as a substring test
_contains_keyword_substring(text, keywords) ==
    \E keyword \in keywords : Contains(lower(text), lower(keyword))

_contains_keyword(text, keywords) == \E keyword \in keywords : SearchWord(text, keyword)

\* the oil/spread rule tried before the rules of the food groups
get_category_oil_first(food_group_id, food_name) ==
    LET food_name_lower == lower(food_name)
        base_category == FOOD_GROUP_MAPPINGS(food_group_id)
    IN  IF _contains_keyword(food_name_lower, OIL_SPREAD_KEYWORDS)
        THEN OILS_AND_SPREADS
        ELSE IF food_group_id = 1 /\ _contains_keyword(food_name_lower, CHEESE_KEYWORDS)
        THEN CHEESE
        ELSE IF food_group_id = 1
                /\ _contains_keyword(food_name_lower, DAIRY_BEVERAGE_KEYWORDS)
        THEN DAIRY_BEVERAGE
        ELSE IF food_group_id = 9
                /\ _contains_keyword(food_name_lower, BEVERAGE_KEYWORDS)
        THEN BEVERAGE
        ELSE IF food_group_id = 14
                /\ _contains_keyword(food_name_lower, DAIRY_BEVERAGE_KEYWORDS)
        THEN DAIRY_BEVERAGE
        ELSE base_category

get_category(food_group_id, food_name) ==
    LET food_name_lower == lower(food_name)
        base_category == FOOD_GROUP_MAPPINGS(food_group_id)
    IN  IF food_group_id = 1 /\ _contains_keyword(food_name_lower, CHEESE_KEYWORDS)
        THEN CHEESE
        ELSE IF food_group_id = 1
                /\ _contains_keyword(food_name_lower, DAIRY_BEVERAGE_KEYWORDS)
        THEN DAIRY_BEVERAGE
        ELSE IF food_group_id = 9
                /\ _contains_keyword(food_name_lower, BEVERAGE_KEYWORDS)
        THEN BEVERAGE
        ELSE IF food_group_id = 14
                /\ _contains_keyword(food_name_lower, DAIRY_BEVERAGE_KEYWORDS)
        THEN DAIRY_BEVERAGE
        ELSE IF _contains_keyword(food_name_lower, OIL_SPREAD_KEYWORDS)
        THEN OILS_AND_SPREADS
        ELSE base_category

-----------------------------------------------------------------------------
(* models/food.py: Food *)

\* food_group_id: Optional[int] = None; the model writes None as an id no
\* food group has
NoGroup == -1

\* dict.get(key, 0)
Get(dict, key) == IF key \in DOMAIN dict THEN dict[key] ELSE I(0)

\* get_category raises only for a food_name that is no str; the names here
\* are, so _assign_category's except branch is not taken.
_assign_category(self) ==
    [self EXCEPT !.category = get_category(self.food_group_id, self.food_name),
                 !.category_confidence = Q(9, 10),
                 !.category_source = "auto_assigned"]

\* Food(food_id=, food_name=, serving_size=, nutrients=, fvnl_percent=,
\*      category=, food_group_id=) with __post_init__; a holds the arguments
Food(a) ==
    LET self == [food_id |-> a.food_id, food_name |-> a.food_name,
                 serving_size |-> a.serving_size, nutrients |-> a.nutrients,
                 fvnl_percent |-> a.fvnl_percent, category |-> a.category,
                 food_group_id |-> a.food_group_id,
                 category_confidence |-> I(0), category_source |-> "unknown"]
    IN  IF self.category = None /\ self.food_group_id # NoGroup
        THEN _assign_category(self)
        ELSE self

-----------------------------------------------------------------------------
(* utils/meal_categorizer.py: MealCategorizer *)

RECURSIVE SumQ(_)
\* sum(list)
SumQ(list) == IF list = <<>> THEN I(0) ELSE Add(list[1], SumQ(Tail(list)))

\* CATEGORY_NUTRITIONAL_PROFILES, in the order the dict literal lists its keys
ProfileOrder == <<BEVERAGE, DAIRY_BEVERAGE, FOOD, DAIRY_FOOD, CHEESE, OILS_AND_SPREADS>>

\* liquid_percentage_min is written liquid = "min", liquid_percentage_max "max"
CATEGORY_NUTRITIONAL_PROFILES(category) ==
    IF category = BEVERAGE THEN
        [expected_energy_range |-> <<I(0), I(200)>>, expected_protein_range |-> <<I(0), I(3)>>,
         expected_fat_range |-> <<I(0), I(1)>>, liquid |-> "min", liquid_percentage |-> Q(8, 10),
         processing_tolerance |-> "processed"]
    ELSE IF category = DAIRY_BEVERAGE THEN
        [expected_energy_range |-> <<I(30), I(150)>>, expected_protein_range |-> <<I(2), I(8)>>,
         expected_fat_range |-> <<I(0), I(6)>>, liquid |-> "min", liquid_percentage |-> Q(7, 10),
         processing_tolerance |-> "processed"]
    ELSE IF category = FOOD THEN
        [expected_energy_range |-> <<I(50), I(800)>>, expected_protein_range |-> <<I(0), I(50)>>,
         expected_fat_range |-> <<I(0), I(50)>>, liquid |-> "max", liquid_percentage |-> Q(3, 10),
         processing_tolerance |-> "any"]
    ELSE IF category = DAIRY_FOOD THEN
        [expected_energy_range |-> <<I(50), I(400)>>, expected_protein_range |-> <<I(3), I(30)>>,
         expected_fat_range |-> <<I(0), I(25)>>, liquid |-> "max", liquid_percentage |-> Q(2, 10),
         processing_tolerance |-> "processed"]
    ELSE IF category = CHEESE THEN
        [expected_energy_range |-> <<I(200), I(450)>>, expected_protein_range |-> <<I(10), I(35)>>,
         expected_fat_range |-> <<I(15), I(35)>>, liquid |-> "max", liquid_percentage |-> Q(1, 10),
         processing_tolerance |-> "processed"]
    ELSE
        [expected_energy_range |-> <<I(300), I(900)>>, expected_protein_range |-> <<I(0), I(5)>>,
         expected_fat_range |-> <<I(30), I(100)>>, liquid |-> "max", liquid_percentage |-> Q(2, 10),
         processing_tolerance |-> "any"]

\* sum(food.nutrients.get(key, 0) * food.serving_size / 100 for food in foods)
\*     / (total_weight / 100)
WeightedPer100g(foodlist, key, total_weight) ==
    Div(SumQ([i \in DOMAIN foodlist |->
                 Div(Mul(Get(foodlist[i].nutrients, key), foodlist[i].serving_size), I(100))]),
        Div(total_weight, I(100)))

TotalWeight(foodlist) == SumQ([i \in DOMAIN foodlist |-> foodlist[i].serving_size])

\* MealCategorizer._calculate_liquid_percentage
Categorizer_calculate_liquid_percentage(foodlist) ==
    LET total_weight == TotalWeight(foodlist)
        liquid(food) ==
            LET food_name == lower(food.food_name)
            IN  IF ContainsAny(food_name,
                    {<<"j","u","i","c","e">>, <<"d","r","i","n","k">>,
                     <<"b","e","v","e","r","a","g","e">>, <<"m","i","l","k">>,
                     <<"w","a","t","e","r">>})
                THEN food.serving_size
                ELSE IF Contains(food_name, <<"s","o","u","p">>)
                THEN Mul(food.serving_size, Q(7, 10))
                ELSE I(0)
    IN  IF Eq(total_weight, I(0))
        THEN I(0)
        ELSE Div(SumQ([i \in DOMAIN foodlist |-> liquid(foodlist[i])]), total_weight)

_assess_overall_processing_level(foodlist) ==
    LET score(food) ==
            LET food_name == lower(food.food_name)
            IN  IF ContainsAny(food_name,
                    {<<"r","a","w">>, <<"f","r","e","s","h">>,
                     <<"w","h","o","l","e">>, <<"n","a","t","u","r","a","l">>})
                THEN 1
                ELSE IF ContainsAny(food_name,
                    {<<"c","a","n","n","e","d">>, <<"f","r","o","z","e","n">>,
                     <<"d","r","i","e","d">>, <<"c","o","o","k","e","d">>})
                THEN 2
                ELSE IF ContainsAny(food_name,
                    {<<"p","r","o","c","e","s","s","e","d">>,
                     <<"e","n","r","i","c","h","e","d">>,
                     <<"f","l","a","v","o","r","e","d">>,
                     <<"i","n","s","t","a","n","t">>})
                THEN 3
                ELSE 2
        processing_scores == [i \in DOMAIN foodlist |-> I(score(foodlist[i]))]
        avg_score == IF processing_scores # <<>>
                     THEN Div(SumQ(processing_scores), I(Len(processing_scores)))
                     ELSE I(2)
    IN  IF Le(avg_score, Q(13, 10)) THEN "minimally_processed"
        ELSE IF Le(avg_score, Q(23, 10)) THEN "processed"
        ELSE "ultra_processed"

_calculate_natural_content_score(foodlist) ==
    LET score(food) ==
            LET food_name == lower(food.food_name)
            IN  IF ContainsAny(food_name,
                    {<<"f","r","e","s","h">>, <<"r","a","w">>,
                     <<"w","h","o","l","e">>, <<"n","a","t","u","r","a","l">>,
                     <<"o","r","g","a","n","i","c">>})
                THEN I(1)
                ELSE IF ContainsAny(food_name,
                    {<<"f","r","u","i","t">>,
                     <<"v","e","g","e","t","a","b","l","e">>, <<"n","u","t">>,
                     <<"s","e","e","d">>})
                THEN Q(8, 10)
                ELSE IF ContainsAny(food_name,
                    {<<"p","r","o","c","e","s","s","e","d">>,
                     <<"a","r","t","i","f","i","c","i","a","l">>,
                     <<"s","y","n","t","h","e","t","i","c">>})
                THEN Q(2, 10)
                ELSE Q(5, 10)
        natural_scores == [i \in DOMAIN foodlist |-> score(foodlist[i])]
    IN  IF natural_scores # <<>>
        THEN Div(SumQ(natural_scores), I(Len(natural_scores)))
        ELSE Q(5, 10)

\* max(lo, min(hi, x))
Clamp(lo, hi, x) == IF Lt(hi, x) THEN (IF Lt(hi, lo) THEN lo ELSE hi)
                    ELSE IF Lt(x, lo) THEN lo ELSE x

_calculate_meal_satiety_index(nutrition) ==
    LET s1 == IF Le(I(20), nutrition.protein) THEN Q(12, 10)
              ELSE IF Le(I(15), nutrition.protein) THEN Q(115, 100)
              ELSE IF Le(I(10), nutrition.protein) THEN Q(11, 10)
              ELSE I(1)
        s2 == IF Le(I(10), nutrition.fiber) THEN Q(12, 10)
              ELSE IF Le(I(6), nutrition.fiber) THEN Q(115, 100)
              ELSE IF Le(I(3), nutrition.fiber) THEN Q(11, 10)
              ELSE I(1)
        s3 == IF Lt(Q(5, 10), nutrition.liquid_percentage) THEN Q(8, 10)
              ELSE IF Lt(Q(2, 10), nutrition.liquid_percentage) THEN Q(9, 10)
              ELSE I(1)
    IN  Clamp(Q(5, 10), Q(15, 10), Mul(Mul(s1, s2), s3))

\* the *_level labels and nutritional_density of the analysis are report
\* text that nothing reads back; they are left out of the record
_get_empty_nutrition_analysis ==
    [energy_kcal |-> I(0), protein |-> I(0), fat_total |-> I(0), saturated_fat |-> I(0),
     carbohydrates |-> I(0), sugars |-> I(0), fiber |-> I(0), sodium |-> I(0),
     total_weight |-> I(0), satiety_index |-> I(1), processing_level |-> "unknown",
     liquid_percentage |-> I(0), natural_content_score |-> I(0)]

\* the nutrition dict before the derived metrics are added
MealNutrition(foodlist, total_weight) ==
    [energy_kcal |-> WeightedPer100g(foodlist, "ENERGY (KILOCALORIES)", total_weight),
     protein |-> WeightedPer100g(foodlist, "PROTEIN", total_weight),
     fat_total |-> WeightedPer100g(foodlist, "FAT, TOTAL", total_weight),
     saturated_fat |->
         WeightedPer100g(foodlist, "FATTY ACIDS, SATURATED, TOTAL", total_weight),
     carbohydrates |-> WeightedPer100g(foodlist, "CARBOHYDRATE, TOTAL", total_weight),
     sugars |-> WeightedPer100g(foodlist, "SUGARS, TOTAL", total_weight),
     fiber |-> WeightedPer100g(foodlist, "FIBRE, TOTAL DIETARY", total_weight),
     sodium |-> WeightedPer100g(foodlist, "SODIUM", total_weight),
     total_weight |-> total_weight,
     liquid_percentage |-> Categorizer_calculate_liquid_percentage(foodlist)]

\* nutrition.update({...}): the derived metrics
WithDerivedMetrics(foodlist, nutrition) ==
    [energy_kcal |-> nutrition.energy_kcal, protein |-> nutrition.protein,
     fat_total |-> nutrition.fat_total, saturated_fat |-> nutrition.saturated_fat,
     carbohydrates |-> nutrition.carbohydrates, sugars |-> nutrition.sugars,
     fiber |-> nutrition.fiber, sodium |-> nutrition.sodium,
     total_weight |-> nutrition.total_weight,
     satiety_index |-> _calculate_meal_satiety_index(nutrition),
     processing_level |-> _assess_overall_processing_level(foodlist),
     liquid_percentage |-> nutrition.liquid_percentage,
     natural_content_score |-> _calculate_natural_content_score(foodlist)]

_analyze_meal_nutrition(foodlist) ==
    IF Eq(TotalWeight(foodlist), I(0))
    THEN _get_empty_nutrition_analysis
    ELSE WithDerivedMetrics(foodlist, MealNutrition(foodlist, TotalWeight(foodlist)))

\* one category's fitness: score / max_score
CategoryFitness(category, nutrition) ==
    LET profile == CATEGORY_NUTRITIONAL_PROFILES(category)
        \* 20/15/15 points inside the range, a linear penalty outside it
        range(value, lohi, full, below, above) ==
            IF Le(lohi[1], value) /\ Le(value, lohi[2])
            THEN I(full)
            ELSE IF Lt(value, lohi[1])
            THEN MaxQ(I(0), Sub(I(full), Mul(Sub(lohi[1], value), below)))
            ELSE MaxQ(I(0), Sub(I(full), Mul(Sub(value, lohi[2]), above)))
        energy == range(nutrition.energy_kcal, profile.expected_energy_range,
                        20, Q(1, 10), Q(1, 20))
        protein == range(nutrition.protein, profile.expected_protein_range,
                         15, I(2), Q(1, 2))
        fat == range(nutrition.fat_total, profile.expected_fat_range,
                     15, I(2), Q(1, 3))
        liquid ==
            IF profile.liquid = "min"
            THEN IF Le(profile.liquid_percentage, nutrition.liquid_percentage)
                 THEN I(25)
                 ELSE Mul(Div(nutrition.liquid_percentage, profile.liquid_percentage), I(25))
            ELSE IF Le(nutrition.liquid_percentage, profile.liquid_percentage)
                 THEN I(25)
                 ELSE MaxQ(I(0), Sub(I(25),
                        Mul(Sub(nutrition.liquid_percentage, profile.liquid_percentage), I(50))))
        processing ==
            IF profile.processing_tolerance = "any" THEN I(15)
            ELSE IF profile.processing_tolerance = "processed"
                    /\ nutrition.processing_level # "ultra_processed" THEN I(15)
            ELSE IF profile.processing_tolerance = "minimally_processed"
                    /\ nutrition.processing_level = "minimally_processed" THEN I(15)
            ELSE IF profile.processing_tolerance = "processed"
                    /\ nutrition.processing_level = "ultra_processed" THEN I(10)
            ELSE I(0)
        bonus ==
            \/ category = CHEESE /\ Le(I(15), nutrition.protein) /\ Le(I(15), nutrition.fat_total)
            \/ category \in {BEVERAGE, DAIRY_BEVERAGE} /\ Lt(Q(8, 10), nutrition.liquid_percentage)
            \/ category = OILS_AND_SPREADS /\ Lt(I(50), nutrition.fat_total)
        score == Add(Add(Add(Add(energy, protein), fat), Add(liquid, processing)),
                     IF bonus THEN I(10) ELSE I(0))
        max_score == IF bonus THEN I(100) ELSE I(90)
    IN  Div(score, max_score)

\* a dict Category -> fitness, iterated in ProfileOrder
_evaluate_category_fitness(nutrition) ==
    [category \in Categories |-> CategoryFitness(category, nutrition)]

\* sorted(category_fitness.items(), key=lambda x: x[1], reverse=True): a
\* stable sort, so equal scores stay in dict order
RECURSIVE InsertDesc(_, _, _)
InsertDesc(sorted, category, fitness) ==
    IF sorted = <<>> THEN <<category>>
    ELSE IF Lt(fitness[Head(sorted)], fitness[category])
    THEN <<category>> \o sorted
    ELSE <<Head(sorted)>> \o InsertDesc(Tail(sorted), category, fitness)

RECURSIVE SortDesc(_, _)
SortDesc(order, fitness) ==
    IF order = <<>> THEN <<>>
    ELSE InsertDesc(SortDesc(SubSeq(order, 1, Len(order) - 1), fitness),
                    order[Len(order)], fitness)

\* the first element of list that is in set, or None
FirstIn(list, set) ==
    IF \E i \in DOMAIN list : list[i] \in set
    THEN list[CHOOSE i \in DOMAIN list :
                  list[i] \in set /\ \A j \in 1..(i - 1) : list[j] \notin set]
    ELSE None

\* conflicts holds the categories of the conflict triples, in sorted order
\* Rule 1: liquid dominance
TieBreakRule1(tie_breaker, conflicts, liquid_percentage) ==
    IF Lt(Q(6, 10), liquid_percentage)
       /\ FirstIn(conflicts, {BEVERAGE, DAIRY_BEVERAGE}) # None
    THEN [rule_applied |-> "liquid_dominance",
          winner |-> FirstIn(conflicts, {BEVERAGE, DAIRY_BEVERAGE})]
    ELSE tie_breaker

\* Rule 2: protein/fat profile
TieBreakRule2(tie_breaker, conflicts, nutrition) ==
    IF Le(I(15), nutrition.protein) /\ Le(I(15), nutrition.fat_total)
       /\ FirstIn(conflicts, {CHEESE, DAIRY_FOOD}) # None
    THEN [rule_applied |-> "protein_fat_profile",
          winner |-> FirstIn(conflicts, {CHEESE, DAIRY_FOOD})]
    ELSE tie_breaker

\* Rule 3: energy density
TieBreakRule3(tie_breaker, conflicts, nutrition) ==
    IF Lt(I(500), nutrition.energy_kcal) /\ Lt(I(40), nutrition.fat_total)
       /\ FirstIn(conflicts, {OILS_AND_SPREADS}) # None
    THEN [rule_applied |-> "energy_density", winner |-> OILS_AND_SPREADS]
    ELSE tie_breaker

\* Rule 4: the inclusive FOOD category, if no rule applied
TieBreakRule4(tie_breaker, conflicts) ==
    IF tie_breaker.rule_applied = None /\ FirstIn(conflicts, {FOOD}) # None
    THEN [rule_applied |-> "inclusive_default", winner |-> FOOD]
    ELSE tie_breaker

_apply_tie_breaking_rules(top_category, conflicts, foodlist) ==
    TieBreakRule4(
        TieBreakRule3(
            TieBreakRule2(
                TieBreakRule1([rule_applied |-> None, winner |-> top_category],
                              conflicts,
                              Categorizer_calculate_liquid_percentage(foodlist)),
                conflicts, _analyze_meal_nutrition(foodlist)),
            conflicts, _analyze_meal_nutrition(foodlist)),
        conflicts)

\* tie_breaker is None without conflicts; NoTieBreaker stands for that None
NoTieBreaker == [rule_applied |-> None, winner |-> None]

\* abs(a)
AbsQ(a) == IF a.n < 0 THEN [n |-> -a.n, d |-> a.d] ELSE a

\* the conflicts taken within 0.3 of the top score
Conflicts_wide_margin(sorted_categories, category_fitness, top_score) ==
    SelectSeq(Tail(sorted_categories),
              LAMBDA c : Lt(AbsQ(Sub(category_fitness[c], top_score)), Q(30, 100)))

\* the categories after the top one whose score is within 0.15 of top_score
Conflicts(sorted_categories, category_fitness, top_score) ==
    SelectSeq(Tail(sorted_categories),
              LAMBDA c : Lt(AbsQ(Sub(category_fitness[c], top_score)), Q(15, 100)))

ConflictResolution(foodlist, top_category, top_score, conflicts) ==
    [has_conflicts |-> conflicts # <<>>,
     conflicts |-> conflicts,
     resolution_strategy |-> IF conflicts # <<>> THEN "conflict_resolution"
                             ELSE "clear_winner",
     tie_breaker |-> IF conflicts # <<>>
                     THEN _apply_tie_breaking_rules(top_category, conflicts, foodlist)
                     ELSE NoTieBreaker,
     top_category |-> top_category,
     top_score |-> top_score]

ResolveSorted(foodlist, category_fitness, sorted_categories) ==
    ConflictResolution(foodlist, sorted_categories[1],
        category_fitness[sorted_categories[1]],
        Conflicts(sorted_categories, category_fitness,
                  category_fitness[sorted_categories[1]]))

_resolve_category_conflicts(foodlist, category_fitness) ==
    ResolveSorted(foodlist, category_fitness, SortDesc(ProfileOrder, category_fitness))

\* max(category_fitness.items(), key=lambda x: x[1])[0]: the first maximum in
\* dict order
_select_scientifically_optimal_category(category_fitness, conflict_resolution) ==
    IF conflict_resolution.has_conflicts /\ conflict_resolution.tie_breaker # NoTieBreaker
    THEN conflict_resolution.tie_breaker.winner
    ELSE SortDesc(ProfileOrder, category_fitness)[1]

\* _calculate_scientific_confidence with the consistency bonus capped at 0.2
_calculate_scientific_confidence_capped(recommended_category, category_fitness, nutritional_analysis) ==
    LET base_confidence == category_fitness[recommended_category]
        profile == CATEGORY_NUTRITIONAL_PROFILES(recommended_category)
        energy_bonus ==
            IF Le(profile.expected_energy_range[1], nutritional_analysis.energy_kcal)
               /\ Le(nutritional_analysis.energy_kcal, profile.expected_energy_range[2])
            THEN Q(1, 10) ELSE I(0)
        liquid_bonus ==
            IF profile.liquid = "min"
            THEN IF Le(profile.liquid_percentage, nutritional_analysis.liquid_percentage)
                 THEN Q(1, 10) ELSE I(0)
            ELSE IF Le(nutritional_analysis.liquid_percentage, profile.liquid_percentage)
                 THEN Q(1, 10) ELSE I(0)
        processing_bonus == IF profile.processing_tolerance = "any" THEN Q(5, 100) ELSE I(0)
        consistency_bonus ==
            MinQ(Q(2, 10), Add(Add(energy_bonus, liquid_bonus), processing_bonus))
        data_quality_penalty ==
            Add(IF Eq(nutritional_analysis.protein, I(0)) THEN Q(5, 100) ELSE I(0),
                IF Eq(nutritional_analysis.fiber, I(0)) THEN Q(3, 100) ELSE I(0))
        final_confidence == Sub(Add(base_confidence, consistency_bonus), data_quality_penalty)
    IN  MaxQ(Q(1, 10), MinQ(I(1), final_confidence))

_calculate_scientific_confidence(recommended_category, category_fitness, nutritional_analysis) ==
    LET base_confidence == category_fitness[recommended_category]
        profile == CATEGORY_NUTRITIONAL_PROFILES(recommended_category)
        energy_bonus ==
            IF Le(profile.expected_energy_range[1], nutritional_analysis.energy_kcal)
               /\ Le(nutritional_analysis.energy_kcal, profile.expected_energy_range[2])
            THEN Q(1, 10) ELSE I(0)
        liquid_bonus ==
            IF profile.liquid = "min"
            THEN IF Le(profile.liquid_percentage, nutritional_analysis.liquid_percentage)
                 THEN Q(1, 10) ELSE I(0)
            ELSE IF Le(nutritional_analysis.liquid_percentage, profile.liquid_percentage)
                 THEN Q(1, 10) ELSE I(0)
        processing_bonus == IF profile.processing_tolerance = "any" THEN Q(5, 100) ELSE I(0)
        consistency_bonus == Add(Add(energy_bonus, liquid_bonus), processing_bonus)
        data_quality_penalty ==
            Add(IF Eq(nutritional_analysis.protein, I(0)) THEN Q(5, 100) ELSE I(0),
                IF Eq(nutritional_analysis.fiber, I(0)) THEN Q(3, 100) ELSE I(0))
        final_confidence == Sub(Add(base_confidence, consistency_bonus), data_quality_penalty)
    IN  MaxQ(Q(1, 10), MinQ(I(1), final_confidence))

\* _analyze_single_food reads food.category.value: AttributeError when the
\* food's category is None
_analyze_single_food(food) ==
    IF food.category = None
    THEN [raised |-> TRUE, error |-> "'NoneType' object has no attribute 'value'"]
    ELSE [raised |-> FALSE,
          recommended_category |-> food.category,
          confidence |-> I(1),
          reasoning |-> "Single food item uses pre-assigned category",
          category_fitness |-> <<>>,
          conflict_resolution |-> <<>>,
          scientific_factors |-> <<>>]

\* Step 5 on: the CategorizationResult.  Its reasoning, rationale and
\* alternatives are report text built from the values kept here.
CategorizationResult(recommended_category, category_fitness, conflict_resolution, nutritional_analysis) ==
    [raised |-> FALSE,
     recommended_category |-> recommended_category,
     confidence |-> _calculate_scientific_confidence(
                        recommended_category, category_fitness, nutritional_analysis),
     reasoning |-> "Best nutritional profile match",
     category_fitness |-> category_fitness,
     conflict_resolution |-> conflict_resolution,
     scientific_factors |-> nutritional_analysis]

\* Steps 3 and 4: conflict resolution and the choice of the category
CategorizeFitted(foodlist, nutritional_analysis, category_fitness, conflict_resolution) ==
    CategorizationResult(
        _select_scientifically_optimal_category(category_fitness, conflict_resolution),
        category_fitness, conflict_resolution, nutritional_analysis)

\* Step 2: the fitness of every category
CategorizeAnalysed(foodlist, nutritional_analysis) ==
    CategorizeFitted(foodlist, nutritional_analysis,
        _evaluate_category_fitness(nutritional_analysis),
        _resolve_category_conflicts(foodlist,
            _evaluate_category_fitness(nutritional_analysis)))

\* the categorizer without the shortcut for a single food
determine_scientific_category_always_analysed(foodlist) ==
    IF foodlist = <<>>
    THEN [raised |-> FALSE,
          recommended_category |-> FOOD,
          confidence |-> Q(3, 10),
          reasoning |-> "Empty meal",
          category_fitness |-> <<>>,
          conflict_resolution |-> <<>>,
          scientific_factors |-> _get_empty_nutrition_analysis]
    ELSE CategorizeAnalysed(foodlist, _analyze_meal_nutrition(foodlist))

determine_scientific_category(foodlist) ==
    IF foodlist = <<>>
    THEN [raised |-> FALSE,
          recommended_category |-> FOOD,
          confidence |-> Q(3, 10),
          reasoning |-> "Empty meal",
          category_fitness |-> <<>>,
          conflict_resolution |-> <<>>,
          scientific_factors |-> _get_empty_nutrition_analysis]
    ELSE IF Len(foodlist) = 1
    THEN _analyze_single_food(foodlist[1])
    ELSE CategorizeAnalysed(foodlist, _analyze_meal_nutrition(foodlist))

-----------------------------------------------------------------------------
(* models/meal.py: Meal *)

\* an attribute that no statement has assigned: reading it raises AttributeError
Unset == [unset |-> TRUE]

\* the dataclass fields after __init__, before __post_init__; the nutrient
\* attributes and total_weight are no dataclass fields and exist only once
\* _calculate_nutritional_values or _set_zero_nutritional_values assigns them.
\* category_analysis keeps its "reason"; Meal.nutritional_context (a copy of
\* the categorizer's scientific_factors) is report data and is left out.
MealFields(category) ==
    [category |-> category,
     category_analysis |-> [reason |-> None],
     category_confidence |-> I(0),
     category_warnings |-> <<>>,
     total_weight |-> Unset,
     energy_kilocalories |-> Unset,
     energy_kj |-> Unset,
     protein |-> Unset,
     carbohydrate_total |-> Unset,
     fibre_total_dietary |-> Unset,
     sugars_total |-> Unset,
     fat_total |-> Unset,
     fatty_acids_saturated_total |-> Unset,
     sodium |-> Unset,
     calcium |-> Unset,
     fvnl_percent |-> Unset]

RECURSIVE Concat(_)
\* the lists of a list of lists, one after the other
Concat(lists) == IF lists = <<>> THEN <<>> ELSE Head(lists) \o Concat(Tail(lists))

_validate_foods(self, foodlist) ==
    LET invalid(i) ==
            (IF Le(foodlist[i].serving_size, I(0))
             THEN <<"Food " \o ToString(i) \o ": Invalid serving size">> ELSE <<>>)
            \o (IF DOMAIN foodlist[i].nutrients = {}
                THEN <<"Food " \o ToString(i) \o ": Missing nutrient data">> ELSE <<>>)
            \o (IF foodlist[i].category = None
                THEN <<"Food " \o ToString(i) \o ": Missing category">> ELSE <<>>)
        invalid_foods == Concat([i \in DOMAIN foodlist |-> invalid(i)])
    IN  [self EXCEPT !.category_warnings = @ \o invalid_foods]

\* one food of foods_without_categories: the Food object after the call
AssignMissingCategory(food) ==
    IF food.food_group_id # NoGroup /\ food.food_group_id # 0
    THEN [food EXCEPT !.category = get_category(food.food_group_id, food.food_name),
                      !.category_source = "food_group_mapping",
                      !.category_confidence = Q(8, 10)]
    ELSE [food EXCEPT !.category = FOOD,
                      !.category_source = "default_fallback",
                      !.category_confidence = Q(3, 10)]

\* [self, foods]: the Meal and the Food objects after the call
_assign_missing_food_categories(self, foodlist) ==
    LET missing(i) == foodlist[i].category = None
        warning(i) ==
            IF missing(i) /\ ~(foodlist[i].food_group_id # NoGroup
                               /\ foodlist[i].food_group_id # 0)
            THEN <<"Food defaulted to FOOD category">> ELSE <<>>
    IN  [self |-> [self EXCEPT !.category_warnings =
                       @ \o Concat([i \in DOMAIN foodlist |-> warning(i)])],
         foods |-> [i \in DOMAIN foodlist |->
                       IF missing(i) THEN AssignMissingCategory(foodlist[i])
                       ELSE foodlist[i]]]

\* the try block up to the categorizer call: [self, foods]
AssignIfMissing(self, foodlist, n_missing) ==
    IF n_missing > 0
    THEN _assign_missing_food_categories(
             [self EXCEPT !.category_warnings =
                 Append(@, ToString(n_missing) \o " foods missing category assignments")],
             foodlist)
    ELSE [self |-> self, foods |-> foodlist]

\* the rest of the try block, and the except block when the categorizer raised
AdoptCategorization(self, categorization_result) ==
    IF categorization_result.raised
    THEN [self EXCEPT
             !.category = FOOD,
             !.category_analysis = [reason |-> "error_fallback"],
             !.category_confidence = I(0),
             !.category_warnings =
                 Append(@, "Categorization error: " \o categorization_result.error
                           \o " - defaulted to FOOD")]
    ELSE [self EXCEPT
             !.category = categorization_result.recommended_category,
             !.category_analysis = [reason |-> "scientific_categorization"],
             !.category_confidence = categorization_result.confidence]

DetermineAssigned(assigned) ==
    [self |-> AdoptCategorization(assigned.self,
                                  determine_scientific_category(assigned.foods)),
     foods |-> assigned.foods]

\* [self, foods] after the call
_determine_category(self, foodlist) ==
    DetermineAssigned(
        AssignIfMissing(self, foodlist,
            Cardinality({i \in DOMAIN foodlist : foodlist[i].category = None})))

\* the validation with the except block of _determine_category
ValidateAgainst_defaulting(self, categorization_result) ==
    IF categorization_result.raised
    THEN [self EXCEPT !.category = FOOD,
                      !.category_warnings =
                          Append(@, "Validation error: " \o categorization_result.error),
                      !.category_confidence = I(0)]
    ELSE [self EXCEPT
             !.category_confidence = categorization_result.confidence,
             !.category_analysis = [reason |-> "user_provided"]]

\* the try block after the categorizer call, and the except block when the
\* categorizer raised
ValidateAgainst(self, categorization_result) ==
    IF categorization_result.raised
    THEN [self EXCEPT !.category_warnings =
                          Append(@, "Validation error: " \o categorization_result.error),
                      !.category_confidence = Q(5, 10)]
    ELSE [self EXCEPT
             !.category_confidence = categorization_result.confidence,
             !.category_warnings =
                 @ \o (IF categorization_result.recommended_category # self.category
                       THEN <<"Calculated category "
                              \o CategoryValue(categorization_result.recommended_category)
                              \o " differs from assigned "
                              \o CategoryValue(self.category)>>
                       ELSE <<>>)
                   \o (IF Lt(categorization_result.confidence, Q(6, 10))
                       THEN <<"Consider using "
                              \o CategoryValue(categorization_result.recommended_category)
                              \o " category instead">>
                       ELSE <<>>),
             !.category_analysis = [reason |-> "user_provided"]]

_validate_provided_category(self, foodlist) ==
    ValidateAgainst(self, determine_scientific_category(foodlist))

_set_zero_nutritional_values(self) ==
    [self EXCEPT !.energy_kilocalories = I(0),
                 !.energy_kj = I(0),
                 !.protein = I(0),
                 !.carbohydrate_total = I(0),
                 !.fibre_total_dietary = I(0),
                 !.sugars_total = I(0),
                 !.fat_total = I(0),
                 !.fatty_acids_saturated_total = I(0),
                 !.sodium = I(0),
                 !.calcium = I(0),
                 !.fvnl_percent = I(0)]

\* the mean of the per-100g values, serving sizes left out
_calculate_weighted_sum_plain_mean(self, foodlist, nutrient_name) ==
    IF Eq(self.total_weight, I(0))
    THEN I(0)
    ELSE Div(SumQ([i \in DOMAIN foodlist |-> Get(foodlist[i].nutrients, nutrient_name)]),
             I(Len(foodlist)))

_calculate_weighted_sum(self, foodlist, nutrient_name) ==
    IF Eq(self.total_weight, I(0))
    THEN I(0)
    ELSE Div(SumQ([i \in DOMAIN foodlist |->
                     Div(Mul(Get(foodlist[i].nutrients, nutrient_name),
                             foodlist[i].serving_size), I(100))]),
             Div(self.total_weight, I(100)))

_calculate_fvnl_percent(self, foodlist) ==
    IF Eq(self.total_weight, I(0))
    THEN I(0)
    ELSE Mul(Div(SumQ([i \in DOMAIN foodlist |->
                         Mul(foodlist[i].serving_size,
                             Div(foodlist[i].fvnl_percent, I(100)))]),
                 self.total_weight),
             I(100))

\* the messages end in the offending value, which the model leaves out
_validate_nutritional_values(self) ==
    LET extreme ==
            (IF Lt(I(2000), self.energy_kilocalories)
             THEN <<"Very high energy content">> ELSE <<>>)
            \o (IF Lt(I(100), self.protein) THEN <<"Extremely high protein">> ELSE <<>>)
            \o (IF Lt(I(100), self.fat_total) THEN <<"Extremely high fat">> ELSE <<>>)
            \o (IF Lt(I(5000), self.sodium) THEN <<"Extremely high sodium">> ELSE <<>>)
            \o (IF Lt(I(100), self.fvnl_percent) THEN <<"FVNL percent exceeds 100%">> ELSE <<>>)
        neg(name, value) == IF Lt(value, I(0)) THEN <<"Negative " \o name \o " value">> ELSE <<>>
        negative ==
            neg("energy", self.energy_kilocalories) \o neg("protein", self.protein)
            \o neg("carbohydrates", self.carbohydrate_total)
            \o neg("fiber", self.fibre_total_dietary) \o neg("sugars", self.sugars_total)
            \o neg("fat", self.fat_total)
            \o neg("saturated_fat", self.fatty_acids_saturated_total)
            \o neg("sodium", self.sodium) \o neg("calcium", self.calcium)
            \o neg("fvnl_percent", self.fvnl_percent)
    IN  [self EXCEPT !.category_warnings = @ \o extreme \o negative]

\* the zero-weight branch logging its warning without recording it
NutritionalValuesOfWeighed_unwarned(self, foodlist) ==
    IF Eq(self.total_weight, I(0))
    THEN _set_zero_nutritional_values(self)
    ELSE _validate_nutritional_values(
             [self EXCEPT
                 !.energy_kilocalories =
                     _calculate_weighted_sum(self, foodlist, "ENERGY (KILOCALORIES)"),
                 !.energy_kj =
                     Mul(_calculate_weighted_sum(self, foodlist, "ENERGY (KILOCALORIES)"),
                         Q(4184, 1000)),
                 !.protein = _calculate_weighted_sum(self, foodlist, "PROTEIN"),
                 !.carbohydrate_total =
                     _calculate_weighted_sum(self, foodlist, "CARBOHYDRATE, TOTAL"),
                 !.fibre_total_dietary =
                     _calculate_weighted_sum(self, foodlist, "FIBRE, TOTAL DIETARY"),
                 !.sugars_total = _calculate_weighted_sum(self, foodlist, "SUGARS, TOTAL"),
                 !.fat_total = _calculate_weighted_sum(self, foodlist, "FAT, TOTAL"),
                 !.fatty_acids_saturated_total =
                     _calculate_weighted_sum(self, foodlist, "FATTY ACIDS, SATURATED, TOTAL"),
                 !.sodium = _calculate_weighted_sum(self, foodlist, "SODIUM"),
                 !.calcium = _calculate_weighted_sum(self, foodlist, "CALCIUM"),
                 !.fvnl_percent = _calculate_fvnl_percent(self, foodlist)])

\* the method after self.total_weight is assigned
NutritionalValuesOfWeighed(self, foodlist) ==
    IF Eq(self.total_weight, I(0))
    THEN _set_zero_nutritional_values(
             [self EXCEPT !.category_warnings = Append(@, "Meal has zero total weight")])
    ELSE _validate_nutritional_values(
             [self EXCEPT
                 !.energy_kilocalories =
                     _calculate_weighted_sum(self, foodlist, "ENERGY (KILOCALORIES)"),
                 !.energy_kj =
                     Mul(_calculate_weighted_sum(self, foodlist, "ENERGY (KILOCALORIES)"),
                         Q(4184, 1000)),
                 !.protein = _calculate_weighted_sum(self, foodlist, "PROTEIN"),
                 !.carbohydrate_total =
                     _calculate_weighted_sum(self, foodlist, "CARBOHYDRATE, TOTAL"),
                 !.fibre_total_dietary =
                     _calculate_weighted_sum(self, foodlist, "FIBRE, TOTAL DIETARY"),
                 !.sugars_total = _calculate_weighted_sum(self, foodlist, "SUGARS, TOTAL"),
                 !.fat_total = _calculate_weighted_sum(self, foodlist, "FAT, TOTAL"),
                 !.fatty_acids_saturated_total =
                     _calculate_weighted_sum(self, foodlist, "FATTY ACIDS, SATURATED, TOTAL"),
                 !.sodium = _calculate_weighted_sum(self, foodlist, "SODIUM"),
                 !.calcium = _calculate_weighted_sum(self, foodlist, "CALCIUM"),
                 !.fvnl_percent = _calculate_fvnl_percent(self, foodlist)])

_calculate_nutritional_values(self, foodlist) ==
    NutritionalValuesOfWeighed([self EXCEPT !.total_weight = TotalWeight(foodlist)],
                               foodlist)

_validate_final_categorization(self) ==
    LET profile ==
            IF self.category = BEVERAGE
            THEN IF Lt(I(10), self.protein) \/ Lt(I(5), self.fat_total)
                 THEN <<"High protein/fat content unusual for beverage category">>
                 ELSE <<>>
            ELSE IF self.category = CHEESE
            THEN IF Lt(self.protein, I(5)) \/ Lt(self.fat_total, I(5))
                 THEN <<"Low protein/fat content unusual for cheese category">>
                 ELSE <<>>
            ELSE IF self.category = OILS_AND_SPREADS
            THEN IF Lt(self.fat_total, I(20))
                 THEN <<"Low fat content unusual for oils/spreads category">>
                 ELSE <<>>
            ELSE <<>>
        fvnl == IF Lt(I(80), self.fvnl_percent) /\ self.category \notin {FOOD, DAIRY_FOOD}
                THEN <<"High FVNL content may indicate food category more appropriate">>
                ELSE <<>>
    IN  [self EXCEPT !.category_warnings = @ \o profile \o fvnl]

\* Meal(foods, category) with __post_init__: [self, foods], the Meal and the
\* Food objects of its list after construction
\* __post_init__ from "if self.category is None" to the categorization
CategorizeMeal(self, foodlist) ==
    IF self.category = None
    THEN _determine_category(self, foodlist)
    ELSE [self |-> _validate_provided_category(self, foodlist), foods |-> foodlist]

\* __post_init__ after the categorization
FinishMeal(categorized) ==
    [self |-> _validate_final_categorization(
                  _calculate_nutritional_values(categorized.self, categorized.foods)),
     foods |-> categorized.foods]

Meal(foodlist, category) ==
    IF foodlist = <<>>
    THEN [self |-> [MealFields(category) EXCEPT
                       !.category = FOOD,
                       !.category_analysis = [reason |-> "empty_meal"],
                       !.category_confidence = I(0),
                       !.category_warnings =
                           <<"Empty meal - defaulting to FOOD category">>],
          foods |-> foodlist]
    ELSE FinishMeal(CategorizeMeal(_validate_foods(MealFields(category), foodlist),
                                   foodlist))

-----------------------------------------------------------------------------
(* providers/threshold_provider.py: ThresholdProvider.analyze_nutritional_    *)
(* context and its helpers                                                    *)

_count_natural_sugar_foods(foods_info) ==
    Cardinality({i \in DOMAIN foods_info : foods_info[i].food_group_id \in {9, 11}})

_count_processed_foods(foods_info) ==
    Cardinality({i \in DOMAIN foods_info : foods_info[i].food_group_id \in {1, 2, 3, 19}})

\* _calculate_liquid_percentage counting a semi_liquid food at 0.7 of its weight
_calculate_liquid_percentage_soup_weighted(foods_info) ==
    LET total_weight == SumQ([i \in DOMAIN foods_info |-> foods_info[i].serving_size])
        liquid_weight ==
            SumQ([i \in DOMAIN foods_info |->
                     IF foods_info[i].food_form \in {"liquid", "beverage", "juice"}
                     THEN foods_info[i].serving_size
                     ELSE IF foods_info[i].food_form = "semi_liquid"
                     THEN Mul(foods_info[i].serving_size, Q(7, 10))
                     ELSE I(0)])
    IN  IF foods_info = <<>> THEN I(0)
        ELSE IF Eq(total_weight, I(0)) THEN I(0)
        ELSE Div(liquid_weight, total_weight)

_calculate_liquid_percentage(foods_info) ==
    LET total_weight == SumQ([i \in DOMAIN foods_info |-> foods_info[i].serving_size])
        liquid_weight ==
            SumQ([i \in DOMAIN foods_info |->
                     IF foods_info[i].food_form \in {"liquid", "beverage", "juice"}
                     THEN foods_info[i].serving_size ELSE I(0)])
    IN  IF foods_info = <<>> THEN I(0)
        ELSE IF Eq(total_weight, I(0)) THEN I(0)
        ELSE Div(liquid_weight, total_weight)

\* _calculate_satiety_index without its processing level adjustment
_calculate_satiety_index_unprocessed(meal_nutrients, foods_info) ==
    LET protein == meal_nutrients.protein
        s1 == IF Le(I(20), protein) THEN Q(12, 10)
              ELSE IF Le(I(15), protein) THEN Q(115, 100)
              ELSE IF Le(I(10), protein) THEN Q(11, 10)
              ELSE I(1)
        fiber == meal_nutrients.fiber
        s2 == IF Le(I(10), fiber) THEN Mul(s1, Q(12, 10))
              ELSE IF Le(I(6), fiber) THEN Mul(s1, Q(115, 100))
              ELSE IF Le(I(3), fiber) THEN Mul(s1, Q(11, 10))
              ELSE s1
        liquid_percentage == _calculate_liquid_percentage(foods_info)
        s3 == IF Lt(Q(5, 10), liquid_percentage) THEN Mul(s2, Q(7, 10))
              ELSE IF Lt(Q(2, 10), liquid_percentage) THEN Mul(s2, Q(85, 100))
              ELSE s2
    IN  MaxQ(Q(5, 10), MinQ(Q(15, 10), s3))

_calculate_satiety_index(meal_nutrients, foods_info) ==
    LET protein == meal_nutrients.protein
        s1 == IF Le(I(20), protein) THEN Q(12, 10)
              ELSE IF Le(I(15), protein) THEN Q(115, 100)
              ELSE IF Le(I(10), protein) THEN Q(11, 10)
              ELSE I(1)
        fiber == meal_nutrients.fiber
        s2 == IF Le(I(10), fiber) THEN Mul(s1, Q(12, 10))
              ELSE IF Le(I(6), fiber) THEN Mul(s1, Q(115, 100))
              ELSE IF Le(I(3), fiber) THEN Mul(s1, Q(11, 10))
              ELSE s1
        liquid_percentage == _calculate_liquid_percentage(foods_info)
        s3 == IF Lt(Q(5, 10), liquid_percentage) THEN Mul(s2, Q(7, 10))
              ELSE IF Lt(Q(2, 10), liquid_percentage) THEN Mul(s2, Q(85, 100))
              ELSE s2
        ultra_processed_count ==
            Cardinality({i \in DOMAIN foods_info :
                            foods_info[i].processing_level = "ultra_processed"})
        s4 == IF 2 * ultra_processed_count > Len(foods_info)
              THEN Mul(s3, Q(9, 10))
              ELSE s3
    IN  MaxQ(Q(5, 10), MinQ(Q(15, 10), s4))

\* ThresholdProvider._determine_processing_level with the cut-offs 1.3 and 2.3
\* of MealCategorizer._assess_overall_processing_level
Provider_determine_processing_level_low_cutoffs(foods_info) ==
    LET processing_scores(level) ==
            IF level = "processed" THEN 2
            ELSE IF level = "ultra_processed" THEN 3
            ELSE 1
        avg_processing ==
            Div(SumQ([i \in DOMAIN foods_info |->
                         I(processing_scores(foods_info[i].processing_level))]),
                I(Len(foods_info)))
    IN  IF foods_info = <<>> THEN "minimally_processed"
        ELSE IF Le(avg_processing, Q(13, 10)) THEN "minimally_processed"
        ELSE IF Le(avg_processing, Q(23, 10)) THEN "processed"
        ELSE "ultra_processed"

\* ThresholdProvider._determine_processing_level
Provider_determine_processing_level(foods_info) ==
    LET processing_scores(level) ==
            IF level = "processed" THEN 2
            ELSE IF level = "ultra_processed" THEN 3
            ELSE 1
        avg_processing ==
            Div(SumQ([i \in DOMAIN foods_info |->
                         I(processing_scores(foods_info[i].processing_level))]),
                I(Len(foods_info)))
    IN  IF foods_info = <<>> THEN "minimally_processed"
        ELSE IF Le(Q(25, 10), avg_processing) THEN "ultra_processed"
        ELSE IF Le(Q(15, 10), avg_processing) THEN "processed"
        ELSE "minimally_processed"

_calculate_protein_quality_score(foods_info) ==
    LET protein_weight(food) ==
            Div(Mul(food.serving_size, food.protein_content), I(100))
        total_protein_weight ==
            SumQ([i \in DOMAIN foods_info |-> protein_weight(foods_info[i])])
        high_quality_protein ==
            SumQ([i \in DOMAIN foods_info |->
                     IF foods_info[i].food_group_id \in {5, 6, 7, 8, 15, 16}
                     THEN protein_weight(foods_info[i]) ELSE I(0)])
    IN  IF foods_info = <<>> THEN I(1)
        ELSE IF Eq(total_protein_weight, I(0)) THEN I(1)
        ELSE Add(I(1), Mul(Div(high_quality_protein, total_protein_weight), Q(2, 10)))

_assess_fvnl_naturalness(foods_info) ==
    LET whole_fvnl_foods ==
            Cardinality({i \in DOMAIN foods_info :
                            /\ foods_info[i].food_group_id \in {9, 11, 12, 16}
                            /\ foods_info[i].processing_level = "minimally_processed"})
        total_fvnl_foods ==
            Cardinality({i \in DOMAIN foods_info :
                            foods_info[i].food_group_id \in {9, 11, 12, 16}})
    IN  IF foods_info = <<>> THEN I(1)
        ELSE IF total_fvnl_foods = 0 THEN I(1)
        ELSE Q(whole_fvnl_foods, total_fvnl_foods)

analyze_nutritional_context(meal_nutrients, foods_info) ==
    [is_natural_sugar_dominant |->
         _count_natural_sugar_foods(foods_info) > _count_processed_foods(foods_info),
     has_added_sugars |-> \E i \in DOMAIN foods_info : foods_info[i].has_added_sugars,
     satiety_index |-> _calculate_satiety_index(meal_nutrients, foods_info),
     processing_level |-> Provider_determine_processing_level(foods_info),
     liquid_percentage |-> _calculate_liquid_percentage(foods_info),
     fiber_density |-> meal_nutrients.fiber,
     protein_quality_score |-> _calculate_protein_quality_score(foods_info),
     fvnl_naturalness |-> _assess_fvnl_naturalness(foods_info)]

-----------------------------------------------------------------------------
(* calculators/hsr_calculator.py: HSRCalculator                               *)

\* dataclass HSRConfig with its defaults
HSRConfig ==
    [use_scientific_thresholds |-> TRUE, differentiate_sugar_sources |-> TRUE,
     apply_satiety_adjustments |-> TRUE, use_unified_energy_approach |-> TRUE,
     consider_processing_level |-> TRUE, include_confidence_metrics |-> TRUE,
     detailed_explanations |-> TRUE]

_determine_food_form(food) ==
    LET name == lower(food.food_name)
    IN  IF food.food_group_id \in {14, 20} THEN "liquid"
        ELSE IF Contains(name, <<"j","u","i","c","e">>)
                \/ Contains(name, <<"d","r","i","n","k">>) THEN "liquid"
        ELSE IF Contains(name, <<"s","o","u","p">>)
                \/ Contains(name, <<"s","m","o","o","t","h","i","e">>) THEN "semi_liquid"
        ELSE "solid"

\* HSRCalculator._determine_processing_level
_determine_processing_level(food) ==
    LET food_name == lower(food.food_name)
        ultra_processed_indicators ==
            {<<"f","l","a","v","o","u","r","e","d">>, <<"f","l","a","v","o","r","e","d">>,
             <<"a","r","t","i","f","i","c","i","a","l">>, <<"e","n","r","i","c","h","e","d">>,
             <<"f","o","r","t","i","f","i","e","d">>, <<"i","n","s","t","a","n","t">>,
             <<"r","e","a","d","y","-","t","o","-","e","a","t">>,
             <<"f","r","o","z","e","n"," ","m","e","a","l">>, <<"s","n","a","c","k">>,
             <<"c","a","n","d","y">>, <<"s","o","f","t"," ","d","r","i","n","k">>,
             <<"e","n","e","r","g","y"," ","d","r","i","n","k">>}
        processed_indicators ==
            {<<"c","a","n","n","e","d">>, <<"p","a","c","k","a","g","e","d">>,
             <<"p","r","e","s","e","r","v","e","d">>, <<"s","m","o","k","e","d">>,
             <<"c","u","r","e","d">>, <<"b","r","e","a","d">>, <<"c","h","e","e","s","e">>,
             <<"y","o","g","u","r","t">>}
    IN  IF ContainsAny(food_name, ultra_processed_indicators) THEN "ultra_processed"
        ELSE IF ContainsAny(food_name, processed_indicators) THEN "processed"
        ELSE "minimally_processed"

_has_added_sugars(food) ==
    ContainsAny(lower(food.food_name),
        {<<"s","w","e","e","t","e","n","e","d">>, <<"s","u","g","a","r">>,
         <<"s","y","r","u","p">>, <<"h","o","n","e","y">>,
         <<"f","l","a","v","o","u","r","e","d">>, <<"d","e","s","s","e","r","t">>,
         <<"c","a","n","d","y">>, <<"c","h","o","c","o","l","a","t","e">>,
         <<"c","a","k","e">>, <<"c","o","o","k","i","e">>})

_is_natural_sugar_source(food) ==
    LET food_name == lower(food.food_name)
    IN  \/ food.food_group_id \in {9, 11}
        \/ /\ ContainsAny(food_name,
                  {<<"a","p","p","l","e">>, <<"b","a","n","a","n","a">>,
                   <<"o","r","a","n","g","e">>, <<"g","r","a","p","e">>,
                   <<"b","e","r","r","y">>, <<"p","e","a","c","h">>, <<"p","e","a","r">>})
           /\ ~Contains(food_name, <<"j","u","i","c","e">>)

_estimate_natural_sugar_ratio(food) ==
    LET food_name == lower(food.food_name)
    IN  IF food.food_group_id \in {9, 11} THEN Q(9, 10)
        ELSE IF Contains(food_name, <<"f","r","u","i","t">>)
                /\ ~Contains(food_name, <<"j","u","i","c","e">>) THEN Q(8, 10)
        ELSE IF food.food_group_id = 1 THEN Q(7, 10)
        ELSE IF Contains(food_name, <<"w","h","o","l","e">>)
                \/ Contains(food_name, <<"r","a","w">>) THEN Q(8, 10)
        ELSE IF ContainsAny(food_name,
                    {<<"c","a","n","d","y">>, <<"d","e","s","s","e","r","t">>,
                     <<"c","a","k","e">>, <<"c","o","o","k","i","e">>}) THEN Q(1, 10)
        ELSE IF Contains(food_name, <<"s","w","e","e","t","e","n","e","d">>) THEN Q(3, 10)
        ELSE Q(5, 10)

\* reading an attribute the Meal never assigned raises AttributeError; the
\* first such read of __init__ is meal.energy_kilocalories, in this method
MealHasNutrients(m) == m.energy_kilocalories # Unset

_analyze_meal_context(self, foodlist) ==
    LET meal_nutrients ==
            [energy |-> self.meal.energy_kilocalories,
             protein |-> self.meal.protein,
             fiber |-> self.meal.fibre_total_dietary,
             saturated_fat |-> self.meal.fatty_acids_saturated_total,
             sodium |-> self.meal.sodium,
             sugars |-> self.meal.sugars_total]
        foods_info ==
            [i \in DOMAIN foodlist |->
                [food_id |-> foodlist[i].food_id,
                 food_name |-> foodlist[i].food_name,
                 serving_size |-> foodlist[i].serving_size,
                 food_group_id |-> foodlist[i].food_group_id,
                 food_form |-> _determine_food_form(foodlist[i]),
                 processing_level |-> _determine_processing_level(foodlist[i]),
                 has_added_sugars |-> _has_added_sugars(foodlist[i]),
                 protein_content |-> Get(foodlist[i].nutrients, "PROTEIN")]]
    IN  analyze_nutritional_context(meal_nutrients, foods_info)

\* SugarAnalysis.sources, a list of report strings, is left out
_analyze_sugar_sources(self, foodlist) ==
    LET food_sugars(food) ==
            Div(Mul(Get(food.nutrients, "SUGARS, TOTAL"), food.serving_size), I(100))
        natural(food) ==
            IF _is_natural_sugar_source(food) THEN food_sugars(food)
            ELSE Mul(food_sugars(food), _estimate_natural_sugar_ratio(food))
        added(food) ==
            IF _is_natural_sugar_source(food) THEN I(0)
            ELSE Mul(food_sugars(food), Sub(I(1), _estimate_natural_sugar_ratio(food)))
        natural_sugars == SumQ([i \in DOMAIN foodlist |-> natural(foodlist[i])])
        added_sugars == SumQ([i \in DOMAIN foodlist |-> added(foodlist[i])])
        weight_factor == IF Lt(I(0), self.meal.total_weight)
                         THEN Div(self.meal.total_weight, I(100))
                         ELSE I(1)
    IN  [total_sugars |-> self.meal.sugars_total,
         natural_sugars |-> Div(natural_sugars, weight_factor),
         added_sugars |-> Div(added_sugars, weight_factor),
         natural_percentage |->
             IF Lt(I(0), Add(natural_sugars, added_sugars))
             THEN Mul(Div(natural_sugars, Add(natural_sugars, added_sugars)), I(100))
             ELSE I(0)]

_get_energy_points(self) ==
    LET energy_density_kcal == self.meal.energy_kilocalories
        adjusted_energy == Div(energy_density_kcal, self.nutritional_context.satiety_index)
    IN  _get_points_by_thresholds(adjusted_energy, self.thresholds.energy_density)

_get_saturated_fat_points(self) ==
    _get_points_by_thresholds(self.meal.fatty_acids_saturated_total,
                              self.thresholds.saturated_fat)

_get_sugar_points(sugar_amount, thresholds) ==
    _get_points_by_thresholds(sugar_amount, thresholds)

_get_sodium_points(self) ==
    _get_points_by_thresholds(self.meal.sodium, self.thresholds.sodium)

_get_protein_points(self) ==
    LET protein_amount == Mul(self.meal.protein,
                              self.nutritional_context.protein_quality_score)
    IN  _get_points_by_thresholds(protein_amount, self.thresholds.protein)

\* fiber points looked up for every category, on the unadjusted list
_get_fiber_points_any_category(self) ==
    _get_points_by_thresholds(self.meal.fibre_total_dietary, Ints(FIBER_THRESHOLDS))

_get_fiber_points(self) ==
    IF self.meal.category \in {BEVERAGE, DAIRY_BEVERAGE}
    THEN 0
    ELSE _get_points_by_thresholds(self.meal.fibre_total_dietary, self.thresholds.fiber)

_get_fvnl_points(self) ==
    LET adjusted_fvnl == Mul(self.meal.fvnl_percent,
                             self.nutritional_context.fvnl_naturalness)
    IN  _get_points_by_thresholds(adjusted_fvnl, self.thresholds.fvnl)

_calculate_satiety_adjustment(self) ==
    IF ~self.config.apply_satiety_adjustments
    THEN I(0)
    ELSE LET satiety_bonus == Mul(Sub(self.nutritional_context.satiety_index, I(1)), I(2))
         IN  MaxQ(I(-3), MinQ(I(3), satiety_bonus))

_calculate_processing_penalty(self) ==
    IF ~self.config.consider_processing_level
    THEN I(0)
    ELSE IF self.nutritional_context.processing_level = "processed" THEN I(1)
    ELSE IF self.nutritional_context.processing_level = "ultra_processed" THEN Q(25, 10)
    ELSE I(0)

_calculate_naturalness_bonus(self) ==
    LET b1 == IF Lt(Q(8, 10), self.nutritional_context.fvnl_naturalness) THEN I(1)
              ELSE IF Lt(Q(6, 10), self.nutritional_context.fvnl_naturalness) THEN Q(5, 10)
              ELSE I(0)
        b2 == IF Lt(I(80), self.sugar_analysis.natural_percentage)
              THEN Add(b1, Q(5, 10))
              ELSE b1
    IN  Sub(I(0), b2)

\* the complexity deduction taken when either indicator holds
_calculate_confidence_either(self) ==
    LET c1 == IF Eq(self.meal.protein, I(0)) THEN Q(9, 10) ELSE I(1)
        c2 == IF Eq(self.meal.fibre_total_dietary, I(0)) THEN Sub(c1, Q(1, 10)) ELSE c1
        c3 == IF Eq(self.meal.sodium, I(0)) THEN Sub(c2, Q(5, 100)) ELSE c2
        complexity_indicator ==
            (IF self.nutritional_context.processing_level = "ultra_processed" THEN 1 ELSE 0)
            + (IF Lt(Q(5, 10), self.nutritional_context.liquid_percentage) THEN 1 ELSE 0)
        c4 == IF complexity_indicator >= 1 THEN Sub(c3, Q(1, 10)) ELSE c3
        c5 == IF self.meal.category = BEVERAGE /\ Lt(I(10), self.meal.protein)
              THEN Sub(c4, Q(15, 100))
              ELSE c4
    IN  MaxQ(Q(5, 10), c5)

_calculate_confidence(self) ==
    LET c1 == IF Eq(self.meal.protein, I(0)) THEN Q(9, 10) ELSE I(1)
        c2 == IF Eq(self.meal.fibre_total_dietary, I(0)) THEN Sub(c1, Q(1, 10)) ELSE c1
        c3 == IF Eq(self.meal.sodium, I(0)) THEN Sub(c2, Q(5, 100)) ELSE c2
        complexity_indicator ==
            (IF self.nutritional_context.processing_level = "ultra_processed" THEN 1 ELSE 0)
            + (IF Lt(Q(5, 10), self.nutritional_context.liquid_percentage) THEN 1 ELSE 0)
        c4 == IF complexity_indicator >= 2 THEN Sub(c3, Q(1, 10)) ELSE c3
        c5 == IF self.meal.category = BEVERAGE /\ Lt(I(10), self.meal.protein)
              THEN Sub(c4, Q(15, 100))
              ELSE c4
    IN  MaxQ(Q(5, 10), c5)

\* the step function with "<" where the code has "<="
_convert_to_star_rating_strict(score) ==
    IF score < 0 THEN I(5)
    ELSE IF score < 5 THEN Q(45, 10)
    ELSE IF score < 10 THEN I(4)
    ELSE IF score < 15 THEN Q(35, 10)
    ELSE IF score < 20 THEN I(3)
    ELSE IF score < 25 THEN Q(25, 10)
    ELSE IF score < 30 THEN I(2)
    ELSE IF score < 35 THEN Q(15, 10)
    ELSE I(1)

_convert_to_star_rating(score) ==
    IF score <= 0 THEN I(5)
    ELSE IF score <= 5 THEN Q(45, 10)
    ELSE IF score <= 10 THEN I(4)
    ELSE IF score <= 15 THEN Q(35, 10)
    ELSE IF score <= 20 THEN I(3)
    ELSE IF score <= 25 THEN Q(25, 10)
    ELSE IF score <= 30 THEN I(2)
    ELSE IF score <= 35 THEN Q(15, 10)
    ELSE I(1)

_determine_level(star_rating) ==
    IF Le(Q(45, 10), star_rating) THEN "excellent"
    ELSE IF Le(Q(35, 10), star_rating) THEN "good"
    ELSE IF Le(Q(25, 10), star_rating) THEN "average"
    ELSE IF Le(Q(15, 10), star_rating) THEN "below_average"
    ELSE "poor"

\* the blend rounded up instead of truncated
CombinedSugarPoints_ceiling(sugar_natural_points, sugar_added_points) ==
    IntTrunc(Add(Add(Mul(I(sugar_natural_points), Q(7, 10)),
                     Mul(I(sugar_added_points), Q(13, 10))),
                 Q(9, 10)))

\* int(sugar_natural_points * 0.7 + sugar_added_points * 1.3)
CombinedSugarPoints(sugar_natural_points, sugar_added_points) ==
    IntTrunc(Add(Mul(I(sugar_natural_points), Q(7, 10)),
                 Mul(I(sugar_added_points), Q(13, 10))))

\* the final score without the max(0, ...) around baseline - modifying
AdjustedFinalScore_unclamped(baseline_points, modifying_points, satiety_adjustment, processing_penalty, naturalness_bonus) ==
    LET adjusted_score == Add(Add(Add(I(baseline_points - modifying_points),
                                      satiety_adjustment),
                                  processing_penalty), naturalness_bonus)
    IN  Max(0, IntTrunc(adjusted_score))

\* the last lines of _calculate_components before the record is built:
\* base_final_score, adjusted_score and final_score
AdjustedFinalScore(baseline_points, modifying_points, satiety_adjustment, processing_penalty, naturalness_bonus) ==
    LET base_final_score == Max(0, baseline_points - modifying_points)
        adjusted_score == Add(Add(Add(I(base_final_score), satiety_adjustment),
                                  processing_penalty), naturalness_bonus)
    IN  Max(0, IntTrunc(adjusted_score))

_calculate_components(self) ==
    LET energy_points == _get_energy_points(self)
        saturated_fat_points == _get_saturated_fat_points(self)
        sugar_natural_points == _get_sugar_points(self.sugar_analysis.natural_sugars,
                                                  self.thresholds.sugar_natural)
        sugar_added_points == _get_sugar_points(self.sugar_analysis.added_sugars,
                                                self.thresholds.sugar_added)
        sugar_points == CombinedSugarPoints(sugar_natural_points, sugar_added_points)
        sodium_points == _get_sodium_points(self)
        baseline_points == energy_points + saturated_fat_points + sugar_points
                           + sodium_points
        protein_points == _get_protein_points(self)
        fiber_points == _get_fiber_points(self)
        fvnl_points == _get_fvnl_points(self)
        modifying_points == protein_points + fiber_points + fvnl_points
        satiety_adjustment == _calculate_satiety_adjustment(self)
        processing_penalty == _calculate_processing_penalty(self)
        naturalness_bonus == _calculate_naturalness_bonus(self)
        final_score == AdjustedFinalScore(baseline_points, modifying_points,
                           satiety_adjustment, processing_penalty, naturalness_bonus)
    IN  [baseline_points |-> baseline_points,
         energy_points |-> energy_points,
         saturated_fat_points |-> saturated_fat_points,
         sugar_points |-> sugar_points,
         sodium_points |-> sodium_points,
         modifying_points |-> modifying_points,
         protein_points |-> protein_points,
         fiber_points |-> fiber_points,
         fvnl_points |-> fvnl_points,
         final_score |-> final_score,
         star_rating |-> _convert_to_star_rating(final_score),
         sugar_natural_points |-> sugar_natural_points,
         sugar_added_points |-> sugar_added_points,
         satiety_adjustment |-> satiety_adjustment,
         processing_penalty |-> processing_penalty,
         naturalness_bonus |-> naturalness_bonus,
         scientific_confidence |-> _calculate_confidence(self)]

_apply_scientific_adjustments(component_score) == component_score.final_score

_determine_sugar_impact(self) ==
    IF Lt(I(10), self.sugar_analysis.added_sugars) THEN "negative_high"
    ELSE IF Lt(I(5), self.sugar_analysis.added_sugars) THEN "negative_medium"
    ELSE IF Lt(I(70), self.sugar_analysis.natural_percentage) THEN "neutral"
    ELSE "negative_low"

_determine_nutrient_impact(nutrient, points) ==
    IF nutrient \in {"Energy Density", "Saturated Fat", "Sodium"}
    THEN IF points >= 8 THEN "negative_high"
         ELSE IF points >= 5 THEN "negative_medium"
         ELSE IF points >= 2 THEN "negative_low"
         ELSE "neutral"
    ELSE IF points >= 6 THEN "positive_high"
         ELSE IF points >= 4 THEN "positive_medium"
         ELSE IF points >= 2 THEN "positive_low"
         ELSE "neutral"

\* result.nutrient_analyses; unit, threshold_position and recommendation are
\* report strings and are left out of the NutrientAnalysis records
_add_nutrient_analysis(self, result) ==
    LET sugar_analysis ==
            [nutrient_name |-> "Sugars (Total)",
             value |-> self.meal.sugars_total,
             points |-> result.component_score.sugar_points,
             impact |-> _determine_sugar_impact(self)]
        rows == <<[name |-> "Energy Density", value |-> self.meal.energy_kilocalories,
                   thresholds |-> self.thresholds.energy_density],
                  [name |-> "Saturated Fat", value |-> self.meal.fatty_acids_saturated_total,
                   thresholds |-> self.thresholds.saturated_fat],
                  [name |-> "Sodium", value |-> self.meal.sodium,
                   thresholds |-> self.thresholds.sodium],
                  [name |-> "Protein", value |-> self.meal.protein,
                   thresholds |-> self.thresholds.protein],
                  [name |-> "Fiber", value |-> self.meal.fibre_total_dietary,
                   thresholds |-> self.thresholds.fiber],
                  [name |-> "FVNL", value |-> self.meal.fvnl_percent,
                   thresholds |-> self.thresholds.fvnl]>>
        analysis(row) ==
            LET points == _get_points_by_thresholds(row.value, row.thresholds)
            IN  [nutrient_name |-> row.name,
                 value |-> row.value,
                 points |-> points,
                 impact |-> _determine_nutrient_impact(row.name, points)]
    IN  [result EXCEPT !.nutrient_analyses =
            <<sugar_analysis>> \o [i \in DOMAIN rows |-> analysis(rows[i])]]

\* a HealthInsight is written as its title
_add_scientific_insights(self, result) ==
    LET sugar == IF Lt(I(70), self.sugar_analysis.natural_percentage)
                 THEN <<"Predominantly Natural Sugars">> ELSE <<>>
        satiety == IF Lt(Q(11, 10), self.nutritional_context.satiety_index)
                   THEN <<"High Satiety Potential">> ELSE <<>>
        minimal == IF self.nutritional_context.processing_level = "minimally_processed"
                   THEN <<"Minimally Processed">> ELSE <<>>
        ultra == IF self.nutritional_context.processing_level = "ultra_processed"
                 THEN <<"Ultra-Processed Foods">> ELSE <<>>
    IN  [result EXCEPT !.strengths = sugar \o satiety \o minimal,
                       !.concerns = ultra]

_add_improvement_recommendations(self, result) ==
    LET sugar == IF Lt(I(5), self.sugar_analysis.added_sugars)
                 THEN <<"Reduce Added Sugars">> ELSE <<>>
        satiety == IF Lt(self.nutritional_context.satiety_index, Q(9, 10))
                   THEN <<"Improve Satiety">> ELSE <<>>
        processing == IF self.nutritional_context.processing_level = "ultra_processed"
                      THEN <<"Choose Less Processed Options">> ELSE <<>>
    IN  [result EXCEPT !.recommendations = sugar \o satiety \o processing]

\* of result.methodology, the formatted strings are left out
_add_transparency(self, result) ==
    [result EXCEPT !.confidence_score = _calculate_confidence(self),
                   !.methodology =
                       [processing_consideration |->
                            self.nutritional_context.processing_level]]

\* HSRCalculator(meal) with the default HSRConfig.  foodlist is meal.foods and
\* base the class lists of ThresholdProvider.  [raised, error] when __init__
\* raises, else [raised, self, base after the call].
\* __init__ from "self.thresholds =" on; got is what get_thresholds returned
InitWithThresholds(m, foodlist, nutritional_context, got) ==
    [raised |-> FALSE,
     self |-> [meal |-> m, config |-> HSRConfig,
               nutritional_context |-> nutritional_context,
               thresholds |-> got.thresholds,
               sugar_analysis |-> _analyze_sugar_sources([meal |-> m], foodlist),
               scores |-> None],
     base |-> got.base]

\* __init__ after self.nutritional_context is assigned
InitWithContext(m, foodlist, base, nutritional_context) ==
    InitWithThresholds(m, foodlist, nutritional_context,
                       get_thresholds(base, m.category, nutritional_context))

HSRCalculator(m, foodlist, base) ==
    IF ~MealHasNutrients(m)
    THEN [raised |-> TRUE,
          error |-> "AttributeError: 'Meal' object has no attribute 'energy_kilocalories'"]
    ELSE InitWithContext(m, foodlist, base,
             _analyze_meal_context([meal |-> m, config |-> HSRConfig], foodlist))

\* MealHSRResult as calculate_hsr returns it; result.warnings and
\* result.alternatives keep their empty defaults and are left out
\* MealHSRResult(...) with the defaults of the fields not passed
MealHSRResult(self, component_score, star_rating) ==
    [star_rating |-> star_rating,
     level |-> _determine_level(star_rating),
     category |-> self.meal.category,
     component_score |-> component_score,
     total_weight |-> self.meal.total_weight,
     total_energy_kj |-> self.meal.energy_kj,
     total_energy_kcal |-> self.meal.energy_kilocalories,
     nutrient_analyses |-> <<>>,
     strengths |-> <<>>,
     concerns |-> <<>>,
     recommendations |-> <<>>,
     confidence_score |-> I(1),
     methodology |-> [processing_consideration |-> None]]

\* calculate_hsr after component_score is computed
RateComponents(self, component_score) ==
    _add_transparency(self,
        _add_improvement_recommendations(self,
            _add_scientific_insights(self,
                _add_nutrient_analysis(self,
                    MealHSRResult(self, component_score,
                        _convert_to_star_rating(
                            _apply_scientific_adjustments(component_score)))))))

calculate_hsr(self) == RateComponents(self, _calculate_components(self))

-----------------------------------------------------------------------------
(* The foods the model builds meals from.  The engine receives Food objects  *)
(* built by the API views from database rows; the rows below stand for them: *)
(* nutrient values per 100 g, a usual serving in grams, a food group id and   *)
(* no category, so that Food.__post_init__ assigns one.  The last row has no *)
(* food group either.                                                        *)

FoodRows ==
    <<
     [food_id |-> 1,
      serving_size |-> I(150),
      food_name |-> <<"C","h","i","c","k","e","n"," ","b","r","e","a","s","t",","," ","r","a","w">>,
      food_group_id |-> 5,
      fvnl_percent |-> I(0),
      nutrients |->
             "ENERGY (KILOCALORIES)" :> I(165)
          @@ "PROTEIN" :> I(31)
          @@ "CARBOHYDRATE, TOTAL" :> I(0)
          @@ "FIBRE, TOTAL DIETARY" :> I(0)
          @@ "SUGARS, TOTAL" :> I(0)
          @@ "FAT, TOTAL" :> Q(18, 5)
          @@ "FATTY ACIDS, SATURATED, TOTAL" :> I(1)
          @@ "SODIUM" :> I(74)
          @@ "CALCIUM" :> I(15)],
     [food_id |-> 2,
      serving_size |-> I(250),
      food_name |-> <<"O","r","a","n","g","e"," ","j","u","i","c","e">>,
      food_group_id |-> 9,
      fvnl_percent |-> I(100),
      nutrients |->
             "ENERGY (KILOCALORIES)" :> I(45)
          @@ "PROTEIN" :> Q(7, 10)
          @@ "CARBOHYDRATE, TOTAL" :> Q(52, 5)
          @@ "FIBRE, TOTAL DIETARY" :> Q(1, 5)
          @@ "SUGARS, TOTAL" :> Q(42, 5)
          @@ "FAT, TOTAL" :> Q(1, 5)
          @@ "FATTY ACIDS, SATURATED, TOTAL" :> I(0)
          @@ "SODIUM" :> I(1)
          @@ "CALCIUM" :> I(11)],
     [food_id |-> 3,
      serving_size |-> I(250),
      food_name |-> <<"M","i","l","k",","," ","w","h","o","l","e">>,
      food_group_id |-> 1,
      fvnl_percent |-> I(0),
      nutrients |->
             "ENERGY (KILOCALORIES)" :> I(61)
          @@ "PROTEIN" :> Q(16, 5)
          @@ "CARBOHYDRATE, TOTAL" :> Q(24, 5)
          @@ "FIBRE, TOTAL DIETARY" :> I(0)
          @@ "SUGARS, TOTAL" :> I(5)
          @@ "FAT, TOTAL" :> Q(33, 10)
          @@ "FATTY ACIDS, SATURATED, TOTAL" :> Q(19, 10)
          @@ "SODIUM" :> I(43)
          @@ "CALCIUM" :> I(113)],
     [food_id |-> 4,
      serving_size |-> I(50),
      food_name |-> <<"C","h","e","d","d","a","r"," ","c","h","e","e","s","e">>,
      food_group_id |-> 1,
      fvnl_percent |-> I(0),
      nutrients |->
             "ENERGY (KILOCALORIES)" :> I(403)
          @@ "PROTEIN" :> I(25)
          @@ "CARBOHYDRATE, TOTAL" :> Q(13, 10)
          @@ "FIBRE, TOTAL DIETARY" :> I(0)
          @@ "SUGARS, TOTAL" :> Q(1, 2)
          @@ "FAT, TOTAL" :> I(33)
          @@ "FATTY ACIDS, SATURATED, TOTAL" :> I(21)
          @@ "SODIUM" :> I(621)
          @@ "CALCIUM" :> I(721)],
     [food_id |-> 5,
      serving_size |-> I(50),
      food_name |-> <<"O","l","i","v","e"," ","o","i","l">>,
      food_group_id |-> 4,
      fvnl_percent |-> I(0),
      nutrients |->
             "ENERGY (KILOCALORIES)" :> I(884)
          @@ "PROTEIN" :> I(0)
          @@ "CARBOHYDRATE, TOTAL" :> I(0)
          @@ "FIBRE, TOTAL DIETARY" :> I(0)
          @@ "SUGARS, TOTAL" :> I(0)
          @@ "FAT, TOTAL" :> I(100)
          @@ "FATTY ACIDS, SATURATED, TOTAL" :> I(14)
          @@ "SODIUM" :> I(2)
          @@ "CALCIUM" :> I(1)],
     [food_id |-> 6,
      serving_size |-> I(300),
      food_name |-> <<"S","o","f","t"," ","d","r","i","n","k",","," ","c","o","l","a">>,
      food_group_id |-> 14,
      fvnl_percent |-> I(0),
      nutrients |->
             "ENERGY (KILOCALORIES)" :> I(42)
          @@ "PROTEIN" :> I(0)
          @@ "CARBOHYDRATE, TOTAL" :> Q(53, 5)
          @@ "FIBRE, TOTAL DIETARY" :> I(0)
          @@ "SUGARS, TOTAL" :> Q(53, 5)
          @@ "FAT, TOTAL" :> I(0)
          @@ "FATTY ACIDS, SATURATED, TOTAL" :> I(0)
          @@ "SODIUM" :> I(4)
          @@ "CALCIUM" :> I(2)],
     [food_id |-> 7,
      serving_size |-> I(300),
      food_name |-> <<"L","e","n","t","i","l"," ","s","o","u","p",","," ","c","a","n","n","e","d">>,
      food_group_id |-> 16,
      fvnl_percent |-> I(60),
      nutrients |->
             "ENERGY (KILOCALORIES)" :> I(56)
          @@ "PROTEIN" :> Q(18, 5)
          @@ "CARBOHYDRATE, TOTAL" :> I(8)
          @@ "FIBRE, TOTAL DIETARY" :> Q(16, 5)
          @@ "SUGARS, TOTAL" :> I(1)
          @@ "FAT, TOTAL" :> Q(4, 5)
          @@ "FATTY ACIDS, SATURATED, TOTAL" :> Q(1, 10)
          @@ "SODIUM" :> I(390)
          @@ "CALCIUM" :> I(17)],
     [food_id |-> 8,
      serving_size |-> I(50),
      food_name |-> <<"C","h","o","c","o","l","a","t","e"," ","c","a","n","d","y"," ","b","a","r",","," ","s","a","l","t","e","d">>,
      food_group_id |-> 19,
      fvnl_percent |-> I(0),
      nutrients |->
             "ENERGY (KILOCALORIES)" :> I(550)
          @@ "PROTEIN" :> I(4)
          @@ "CARBOHYDRATE, TOTAL" :> I(60)
          @@ "FIBRE, TOTAL DIETARY" :> I(0)
          @@ "SUGARS, TOTAL" :> I(50)
          @@ "FAT, TOTAL" :> I(32)
          @@ "FATTY ACIDS, SATURATED, TOTAL" :> I(22)
          @@ "SODIUM" :> I(1600)
          @@ "CALCIUM" :> I(50)],
     [food_id |-> 9,
      serving_size |-> I(150),
      food_name |-> <<"A","p","p","l","e",","," ","r","a","w">>,
      food_group_id |-> NoGroup,
      fvnl_percent |-> I(100),
      nutrients |->
             "ENERGY (KILOCALORIES)" :> I(52)
          @@ "PROTEIN" :> Q(3, 10)
          @@ "CARBOHYDRATE, TOTAL" :> Q(69, 5)
          @@ "FIBRE, TOTAL DIETARY" :> Q(12, 5)
          @@ "SUGARS, TOTAL" :> Q(52, 5)
          @@ "FAT, TOTAL" :> Q(1, 5)
          @@ "FATTY ACIDS, SATURATED, TOTAL" :> I(0)
          @@ "SODIUM" :> I(1)]>>

\* a row is taken with no weight or with its usual serving
Portions == <<I(0), I(1)>>

\* the most foods in a meal
MaxFoods == 2
\* the most calculators built for the meal
MaxCalculators == 2
\* the most calculate_hsr calls
MaxCalls == 2

\* row r taken with portion p: Food(...) with its __post_init__
FoodOf(r, p) ==
    Food([food_id |-> FoodRows[r].food_id,
          food_name |-> FoodRows[r].food_name,
          serving_size |-> Mul(FoodRows[r].serving_size, Portions[p]),
          nutrients |-> FoodRows[r].nutrients,
          fvnl_percent |-> FoodRows[r].fvnl_percent,
          category |-> None,
          food_group_id |-> FoodRows[r].food_group_id])

\* the choices of (row, portion), numbered
Choices == 1..(Len(FoodRows) * Len(Portions))
ChoiceFood(c) ==
    FoodOf(((c - 1) \div Len(Portions)) + 1, ((c - 1) % Len(Portions)) + 1)

\* the food lists of at most MaxFoods foods; a list is taken in the order of
\* the rows, one representative of its reorderings
FoodLists ==
    {[i \in DOMAIN cs |-> ChoiceFood(cs[i])] :
        cs \in {c \in UNION {[1..k -> Choices] : k \in 0..MaxFoods} :
                   \A i \in 1..(Len(c) - 1) : c[i] <= c[i + 1]}}

-----------------------------------------------------------------------------
(* The engine as a state machine: a request builds the Meal from its foods,  *)
(* builds calculators for it and calls calculate_hsr.                        *)

\* no Meal yet
NoMeal == [none |-> TRUE]

Init ==
    /\ BASE = BaseConstants
    /\ foods \in FoodLists
    /\ categoryArg \in {None} \cup Categories
    /\ meal = NoMeal
    /\ calcs = <<>>
    /\ results = <<>>
    /\ error = None
    /\ fn = None
    /\ args = <<>>
    /\ ret = <<>>

\* meal = Meal(foods=foods, category=categoryArg)
NewMeal ==
    /\ meal = NoMeal
    /\ \E m \in {Meal(foods, categoryArg)} :
           /\ meal' = m.self
           /\ foods' = m.foods
    /\ UNCHANGED <<BASE, categoryArg, calcs, results, error, fn, args, ret>>

\* HSRCalculator(meal); an exception of __init__ ends the request
NewCalculator ==
    /\ meal # NoMeal
    /\ error = None
    /\ Len(calcs) < MaxCalculators
    /\ \E c \in {HSRCalculator(meal, foods, BASE)} :
           IF c.raised
           THEN /\ error' = c.error
                /\ UNCHANGED <<BASE, calcs>>
           ELSE /\ calcs' = Append(calcs, c.self)
                /\ BASE' = c.base
                /\ UNCHANGED error
    /\ UNCHANGED <<foods, categoryArg, meal, results, fn, args, ret>>

\* calcs[c].calculate_hsr(); the method assigns to nothing but its result
CalculateHsr(c) ==
    /\ Len(results) < MaxCalls
    /\ results' = Append(results, [calculator |-> c, result |-> calculate_hsr(calcs[c])])
    /\ UNCHANGED <<BASE, foods, categoryArg, meal, calcs, error, fn, args, ret>>

Next ==
    \/ NewMeal
    \/ NewCalculator
    \/ \E c \in DOMAIN calcs : CalculateHsr(c)

Spec == Init /\ [][Next]_vars

-----------------------------------------------------------------------------
(* The same request for meals of up to three foods of different processing   *)
(* levels and forms: chicken breast (raw), soft drink, canned soup, candy    *)
(* bar, each at its full serving, with the category left to the Meal.        *)

\* the most foods in such a meal
MaxContextFoods == 3

ContextRows == {1, 6, 7, 8}

ContextFoodLists ==
    {[i \in DOMAIN rs |-> FoodOf(rs[i], 2)] :
        rs \in {r \in UNION {[1..k -> ContextRows] : k \in 1..MaxContextFoods} :
                   \A i \in 1..(Len(r) - 1) : r[i] <= r[i + 1]}}

InitContext ==
    /\ BASE = BaseConstants
    /\ foods \in ContextFoodLists
    /\ categoryArg = None
    /\ meal = NoMeal
    /\ calcs = <<>>
    /\ results = <<>>
    /\ error = None
    /\ fn = None
    /\ args = <<>>
    /\ ret = <<>>

SpecContext == InitContext /\ [][Next]_vars

-----------------------------------------------------------------------------
(* The functions of the engine called on their own: fn is the function, args *)
(* its arguments and ret the values its calls have returned so far.          *)

Satieties == {Q(1, 2), Q(3, 4), I(1), Q(13, 10), Q(3, 2)}
Liquids == {I(0), Q(3, 10), Q(31, 100), Q(1, 2), I(1)}
ProteinQualities == {I(1), Q(11, 10), Q(13, 10), I(2)}
ProcessingLevels == {"unprocessed", "minimally_processed", "processed", "ultra_processed"}

\* NutritionalContext(satiety_index=.., processing_level=.., ...)
ContextOf(satiety_index, processing_level, liquid_percentage, protein_quality_score) ==
    [DefaultContext EXCEPT !.satiety_index = satiety_index,
                           !.processing_level = processing_level,
                           !.liquid_percentage = liquid_percentage,
                           !.protein_quality_score = protein_quality_score]

Contexts ==
    {NoContext} \cup
    {ContextOf(s, pl, lq, pq) :
        s \in Satieties, pl \in ProcessingLevels, lq \in Liquids, pq \in ProteinQualities}

SampleContexts ==
    {NoContext} \cup
    {ContextOf(s, pl, lq, I(1)) :
        s \in {I(1), Q(3, 2)}, pl \in {"processed", "ultra_processed"},
        lq \in {I(0), Q(1, 2), I(1)}}

ThresholdNames ==
    {"energy_density", "sugar_natural", "sugar_added", "saturated_fat", "sodium",
     "fvnl", "protein", "fiber", "star_rating"}

\* the lists the calculator looks values up in
ThresholdLists ==
    UNION {{get_thresholds(BaseConstants, c, x).thresholds[k] : k \in ThresholdNames} :
              c \in Categories, x \in SampleContexts}

\* values below, on, between and above the thresholds of a list
ValuesFor(list) ==
    {I(-1), I(2000)}
    \cup {list[i] : i \in {j \in DOMAIN list : list[j] # INF}}
    \cup {Add(list[i], Q(1, 2)) : i \in {j \in DOMAIN list : list[j] # INF}}

LookupArgs ==
    UNION {{[thresholds |-> l, values |-> <<v[1], v[2]>>] :
               v \in {w \in ValuesFor(l) \X ValuesFor(l) : Le(w[1], w[2])}} :
              l \in ThresholdLists}

SugarAmounts ==
    {I(0), Q(1, 2), I(1), Q(3, 2), I(3), Q(7, 2), I(5), Q(11, 2), I(8), I(10),
     I(12), I(15), Q(31, 2), I(18), I(24), I(25), I(35), I(36), I(60)}

SugarArgs ==
    {[category |-> c, nutritional_context |-> x, sugar_amount |-> g] :
        c \in Categories, x \in SampleContexts, g \in SugarAmounts}

ThresholdArgs ==
    {[category |-> c, nutritional_context |-> x] : c \in Categories, x \in Contexts}

\* the most get_thresholds calls in a row: the first with the arguments under
\* test, the second with other arguments, the later ones with the first's again
MaxThresholdCalls == 3

\* the arguments of the call in between
InterveningArgs ==
    {[category |-> OILS_AND_SPREADS, nutritional_context |-> NoContext],
     [category |-> CHEESE,
      nutritional_context |-> ContextOf(Q(3, 2), "ultra_processed", Q(1, 2), I(2))],
     [category |-> BEVERAGE,
      nutritional_context |-> ContextOf(Q(1, 2), "processed", I(1), I(1))]}

ScoreArgs ==
    {[baseline_points |-> b, modifying_points |-> m,
      self |-> [config |-> HSRConfig,
                nutritional_context |->
                    [DefaultContext EXCEPT !.satiety_index = s,
                                           !.processing_level = pl,
                                           !.fvnl_naturalness = fv],
                sugar_analysis |-> [natural_percentage |-> np]]] :
        b \in {0, 2, 5, 12, 40}, m \in {0, 5, 13}, s \in Satieties,
        pl \in ProcessingLevels, fv \in {Q(1, 2), Q(7, 10), I(1)},
        np \in {I(0), I(50), I(100)}}

\* food names in which an oil/spread keyword occurs inside a longer word only
EmbeddedKeywordNames ==
    {<<"R","i","c","e",","," ","b","o","i","l","e","d">>,
     <<"C","h","i","c","k","e","n",","," ","b","r","o","i","l","e","d">>,
     <<"C","o","l","l","a","r","d","s",","," ","b","o","i","l","e","d">>,
     <<"B","u","t","t","e","r","m","i","l","k",","," ","f","l","u","i","d">>,
     <<"B","u","t","t","e","r","y"," ","c","r","a","c","k","e","r","s">>,
     <<"S","p","r","e","a","d","a","b","l","e"," ","c","h","e","e","s","e">>}

\* food names with an oil/spread keyword as a word of its own
WholeKeywordNames ==
    {<<"O","l","i","v","e"," ","o","i","l">>,
     <<"B","u","t","t","e","r",","," ","s","a","l","t","e","d">>,
     <<"C","h","e","e","s","e"," ","s","p","r","e","a","d">>,
     <<"M","i","l","k",","," ","f","i","l","l","e","d",","," ","w","i","t","h"," ","v","e","g","e","t","a","b","l","e"," ","o","i","l">>,
     <<"S","m","o","o","t","h","i","e",","," ","f","r","u","i","t",","," ","w","i","t","h"," ","f","l","a","x","s","e","e","d"," ","o","i","l">>,
     <<"P","E","A","N","U","T"," ","B","U","T","T","E","R">>,
     <<"M","a","r","g","a","r","i","n","e",","," ","t","u","b">>}

\* food names without the letters of an oil/spread keyword
PlainNames ==
    {<<"C","h","i","c","k","e","n"," ","b","r","e","a","s","t",","," ","r","a","w">>,
     <<"O","r","a","n","g","e"," ","j","u","i","c","e">>,
     <<"M","i","l","k",","," ","w","h","o","l","e">>}

SampleGroups == {1, 4, 5, 9, 14, 20}

CategoryArgs ==
    {[food_group_id |-> g, food_name |-> n] :
        g \in SampleGroups,
        n \in EmbeddedKeywordNames \cup WholeKeywordNames \cup PlainNames}

\* the food lists of the classification calls: single foods with and without
\* a food group, and pairs
ClassifyFoodLists ==
    {<<FoodOf(r, 2)>> : r \in {1, 4, 9}}
    \cup {<<FoodOf(1, 2), FoodOf(9, 2)>>, <<FoodOf(2, 2), FoodOf(3, 2)>>}

\* what the categorizer raises on a nutrient value of None, its sum being
\* nutrients.get(...) * serving_size; None stands for a categorizer left to
\* run on the foods as they are
CategorizerFaults ==
    {None, "unsupported operand type(s) for *: 'NoneType' and 'float'"}

DetermineArgs ==
    {[foods |-> l, fault |-> f] : l \in ClassifyFoodLists, f \in CategorizerFaults}

ValidateArgs ==
    {[category |-> c, foods |-> l, fault |-> f] :
        c \in Categories, l \in ClassifyFoodLists, f \in CategorizerFaults}

\* two foods rich in protein, fat and energy, for the tie-breaking rules
TieRows ==
    <<
     [food_id |-> 10,
      serving_size |-> I(50),
      food_name |-> <<"P","e","a","n","u","t","s",","," ","d","r","y"," ","r","o","a","s","t","e","d">>,
      food_group_id |-> 12,
      fvnl_percent |-> I(0),
      nutrients |->
             "ENERGY (KILOCALORIES)" :> I(585)
          @@ "PROTEIN" :> Q(237, 10)
          @@ "CARBOHYDRATE, TOTAL" :> Q(215, 10)
          @@ "FIBRE, TOTAL DIETARY" :> I(8)
          @@ "SUGARS, TOTAL" :> Q(42, 10)
          @@ "FAT, TOTAL" :> Q(497, 10)
          @@ "FATTY ACIDS, SATURATED, TOTAL" :> Q(69, 10)
          @@ "SODIUM" :> I(6)],
     [food_id |-> 11,
      serving_size |-> I(50),
      food_name |-> <<"A","l","m","o","n","d","s",","," ","r","a","w">>,
      food_group_id |-> 12,
      fvnl_percent |-> I(0),
      nutrients |->
             "ENERGY (KILOCALORIES)" :> I(579)
          @@ "PROTEIN" :> I(21)
          @@ "CARBOHYDRATE, TOTAL" :> I(22)
          @@ "FIBRE, TOTAL DIETARY" :> Q(125, 10)
          @@ "SUGARS, TOTAL" :> Q(44, 10)
          @@ "FAT, TOTAL" :> I(50)
          @@ "FATTY ACIDS, SATURATED, TOTAL" :> Q(38, 10)
          @@ "SODIUM" :> I(1)]>>

TieFood(r, portion) ==
    Food([food_id |-> TieRows[r].food_id,
          food_name |-> TieRows[r].food_name,
          serving_size |-> Mul(TieRows[r].serving_size, portion),
          nutrients |-> TieRows[r].nutrients,
          fvnl_percent |-> TieRows[r].fvnl_percent,
          category |-> None,
          food_group_id |-> TieRows[r].food_group_id])

\* the foods of the categorizer calls, and the lists of two of them
TieFoods ==
    <<TieFood(1, I(1)), TieFood(1, I(2)), TieFood(2, I(1)), TieFood(2, I(5)),
      FoodOf(1, 2), FoodOf(3, 2), FoodOf(4, 2), FoodOf(5, 2), FoodOf(8, 2),
      [FoodOf(5, 2) EXCEPT !.serving_size = I(250)],
      [FoodOf(6, 2) EXCEPT !.serving_size = I(50)]>>

CategorizerArgs ==
    {[foods |-> <<TieFoods[i], TieFoods[j]>>] :
        i \in DOMAIN TieFoods, j \in DOMAIN TieFoods}

InitFn ==
    /\ BASE = BaseConstants
    /\ foods = <<>>
    /\ categoryArg = None
    /\ meal = NoMeal
    /\ calcs = <<>>
    /\ results = <<>>
    /\ error = None
    /\ ret = <<>>
    /\ \/ fn = "get_thresholds" /\ args \in ThresholdArgs
       \/ fn = "_get_points_by_thresholds" /\ args \in LookupArgs
       \/ fn = "_get_sugar_points" /\ args \in SugarArgs
       \/ fn = "final_score" /\ args \in ScoreArgs
       \/ fn = "get_category" /\ args \in CategoryArgs
       \/ fn = "_determine_category" /\ args \in DetermineArgs
       \/ fn = "_validate_provided_category" /\ args \in ValidateArgs
       \/ fn = "determine_scientific_category" /\ args \in CategorizerArgs

\* ThresholdProvider.get_thresholds(category, nutritional_context)
CallGetThresholds ==
    /\ fn = "get_thresholds"
    /\ Len(ret) < MaxThresholdCalls
    /\ \E a \in (IF Len(ret) = 1 THEN InterveningArgs ELSE {args}) :
           \E got \in {get_thresholds(BASE, a.category, a.nutritional_context)} :
               /\ ret' = Append(ret, got.thresholds)
               /\ BASE' = got.base
    /\ UNCHANGED <<foods, categoryArg, meal, calcs, results, error, fn, args>>

\* self._get_points_by_thresholds(value, thresholds), once for each value
CallGetPoints ==
    /\ fn = "_get_points_by_thresholds"
    /\ Len(ret) < Len(args.values)
    /\ ret' = Append(ret, _get_points_by_thresholds(args.values[Len(ret) + 1],
                                                    args.thresholds))
    /\ UNCHANGED <<BASE, foods, categoryArg, meal, calcs, results, error, fn, args>>

\* the two sugar lookups of _calculate_components for one amount, on the
\* thresholds get_thresholds returns
CallGetSugarPoints ==
    /\ fn = "_get_sugar_points"
    /\ ret = <<>>
    /\ \E got \in {get_thresholds(BASE, args.category, args.nutritional_context)} :
           /\ ret' = <<[sugar_natural_points |->
                            _get_sugar_points(args.sugar_amount,
                                              got.thresholds.sugar_natural),
                        sugar_added_points |->
                            _get_sugar_points(args.sugar_amount,
                                              got.thresholds.sugar_added)]>>
           /\ BASE' = got.base
    /\ UNCHANGED <<foods, categoryArg, meal, calcs, results, error, fn, args>>

\* the adjustments, final score and star rating of _calculate_components for
\* given baseline and modifying points
CallFinalScore ==
    /\ fn = "final_score"
    /\ ret = <<>>
    /\ \E sa \in {_calculate_satiety_adjustment(args.self)},
          pp \in {_calculate_processing_penalty(args.self)},
          nb \in {_calculate_naturalness_bonus(args.self)} :
           \E final_score \in {AdjustedFinalScore(args.baseline_points,
                                                  args.modifying_points, sa, pp, nb)} :
               ret' = <<[satiety_adjustment |-> sa,
                         processing_penalty |-> pp,
                         naturalness_bonus |-> nb,
                         final_score |-> final_score,
                         star_rating |-> _convert_to_star_rating(final_score)]>>
    /\ UNCHANGED <<BASE, foods, categoryArg, meal, calcs, results, error, fn, args>>

\* FoodGroupMapper.get_category(food_group_id, food_name)
CallGetCategory ==
    /\ fn = "get_category"
    /\ ret = <<>>
    /\ ret' = <<get_category(args.food_group_id, args.food_name)>>
    /\ UNCHANGED <<BASE, foods, categoryArg, meal, calcs, results, error, fn, args>>

\* the categorizer call of the two methods, raising args.fault if there is one
Categorizer(foodlist, fault) ==
    IF fault = None
    THEN determine_scientific_category(foodlist)
    ELSE [raised |-> TRUE, error |-> fault]

\* Meal._determine_category() of a Meal(foods=args.foods) under construction
CallDetermineCategory ==
    /\ fn = "_determine_category"
    /\ ret = <<>>
    /\ \E assigned \in {AssignIfMissing(
                            _validate_foods(MealFields(None), args.foods), args.foods,
                            Cardinality({i \in DOMAIN args.foods :
                                            args.foods[i].category = None}))} :
           \E categorization_result \in {Categorizer(assigned.foods, args.fault)} :
               ret' = <<[self |-> AdoptCategorization(assigned.self, categorization_result),
                         raised |-> categorization_result.raised,
                         error |-> IF categorization_result.raised
                                   THEN categorization_result.error ELSE None]>>
    /\ UNCHANGED <<BASE, foods, categoryArg, meal, calcs, results, error, fn, args>>

\* Meal._validate_provided_category() of a Meal(foods=args.foods,
\* category=args.category) under construction
CallValidateProvidedCategory ==
    /\ fn = "_validate_provided_category"
    /\ ret = <<>>
    /\ \E categorization_result \in {Categorizer(args.foods, args.fault)} :
           ret' = <<[self |-> ValidateAgainst(
                                  _validate_foods(MealFields(args.category), args.foods),
                                  categorization_result),
                     raised |-> categorization_result.raised,
                     error |-> IF categorization_result.raised
                               THEN categorization_result.error ELSE None]>>
    /\ UNCHANGED <<BASE, foods, categoryArg, meal, calcs, results, error, fn, args>>

\* MealCategorizer.determine_scientific_category(args.foods)
CallDetermineScientificCategory ==
    /\ fn = "determine_scientific_category"
    /\ ret = <<>>
    /\ ret' = <<determine_scientific_category(args.foods)>>
    /\ UNCHANGED <<BASE, foods, categoryArg, meal, calcs, results, error, fn, args>>

NextFn ==
    \/ CallGetThresholds
    \/ CallGetPoints
    \/ CallGetSugarPoints
    \/ CallFinalScore
    \/ CallGetCategory
    \/ CallDetermineCategory
    \/ CallValidateProvidedCategory
    \/ CallDetermineScientificCategory

SpecFn == InitFn /\ [][NextFn]_vars

-----------------------------------------------------------------------------
(* Properties *)

MaxScore == 50

\* C1: the final score is max(0, floor(max(0, baseline - modifying) +
\* satiety_adjustment + processing_penalty + naturalness_bonus)) for every
\* combination of points and adjustments, negative and fractional sums
\* included; baseline 40, modifying 5 and no adjustment give 35 and 1.5 stars.
C1_FinalScoreIsFlooredSum ==
    (fn = "final_score" /\ ret # <<>>) =>
        LET r == ret[1]
            sum == Add(Add(Add(I(Max(0, args.baseline_points - args.modifying_points)),
                               r.satiety_adjustment),
                           r.processing_penalty),
                       r.naturalness_bonus)
        IN  /\ r.final_score = Max(0, sum.n \div sum.d)
            /\ (/\ args.baseline_points = 40
                /\ args.modifying_points = 5
                /\ r.satiety_adjustment = I(0)
                /\ r.processing_penalty = I(0)
                /\ r.naturalness_bonus = I(0))
               => (r.final_score = 35 /\ r.star_rating = Q(3, 2))

\* the scenario of the specification: satiety 1.0, minimally processed,
\* fvnl_naturalness 0.5 and 50 % natural sugar, scored 35
C1_Witness ==
    /\ fn = "final_score"
    /\ ret # <<>>
    /\ args.baseline_points = 40
    /\ args.modifying_points = 5
    /\ args.self.nutritional_context.satiety_index = I(1)
    /\ args.self.nutritional_context.processing_level = "minimally_processed"
    /\ args.self.nutritional_context.fvnl_naturalness = Q(1, 2)
    /\ args.self.sugar_analysis.natural_percentage = I(50)
    /\ ret[1].final_score = 35
    /\ ret[1].star_rating = Q(3, 2)

\* C2: the star rating calculate_hsr returns is the step function of the final
\* score (<= 0 -> 5.0, <= 5 -> 4.5, ..., <= 35 -> 1.5, else 1.0); it is one of
\* 1.0, 1.5, ..., 5.0 and does not increase when the score increases.
C2_StarRatingIsStepOfFinalScore ==
    /\ \A i \in DOMAIN results :
           LET r == results[i].result
               score == r.component_score.final_score
               step == IF score <= 0 THEN 0
                       ELSE IF score > 35 THEN 8
                       ELSE (score + 4) \div 5
           IN  /\ r.star_rating = Q(10 - step, 2)
               /\ r.star_rating \in {Q(k, 2) : k \in 2..10}
    /\ \A s \in (0 - MaxScore)..MaxScore :
           /\ Le(_convert_to_star_rating(s + 1), _convert_to_star_rating(s))
           /\ _convert_to_star_rating(s) \in {Q(k, 2) : k \in 2..10}

\* a result on a step boundary that is not the best rating
C2_Witness ==
    \E i \in DOMAIN results :
        /\ results[i].result.component_score.final_score > 0
        /\ results[i].result.component_score.final_score % 5 = 0
        /\ Lt(results[i].result.star_rating, Q(9, 2))

\* C3: the confidence_score of a result is 1.0 - 0.1 (protein = 0) - 0.1
\* (fiber = 0) - 0.05 (sodium = 0) - 0.1 (ultra_processed and liquid > 0.5)
\* - 0.15 (BEVERAGE and protein > 10), not below 0.5; it lies in [0.5, 1.0].
C3_ConfidenceScore ==
    \A i \in DOMAIN results :
        LET x == calcs[results[i].calculator].nutritional_context
            hundredths ==
                (IF meal.protein = I(0) THEN 10 ELSE 0)
                + (IF meal.fibre_total_dietary = I(0) THEN 10 ELSE 0)
                + (IF meal.sodium = I(0) THEN 5 ELSE 0)
                + (IF x.processing_level = "ultra_processed"
                      /\ Lt(Q(1, 2), x.liquid_percentage) THEN 10 ELSE 0)
                + (IF meal.category = BEVERAGE /\ Lt(I(10), meal.protein)
                   THEN 15 ELSE 0)
        IN  /\ results[i].result.confidence_score = MaxQ(Q(1, 2), Q(100 - hundredths, 100))
            /\ Le(Q(1, 2), results[i].result.confidence_score)
            /\ Le(results[i].result.confidence_score, I(1))

\* an ultra-processed meal that is not liquid, without any deduction
C3_Witness ==
    \E i \in DOMAIN results :
        /\ calcs[results[i].calculator].nutritional_context.processing_level
               = "ultra_processed"
        /\ ~Lt(Q(1, 2), calcs[results[i].calculator].nutritional_context.liquid_percentage)
        /\ results[i].result.confidence_score = I(1)

C5_ThresholdListsNonDecreasing ==
    (fn = "get_thresholds" /\ ret # <<>>) =>
        \A k \in ThresholdNames :
            \A i \in 1..(Len(ret[1][k]) - 1) : Le(ret[1][k][i], ret[1][k][i + 1])

\* CHEESE thresholds after every contextual adjustment
C5_Witness ==
    /\ fn = "get_thresholds"
    /\ ret # <<>>
    /\ args.category = CHEESE
    /\ args.nutritional_context # NoContext
    /\ args.nutritional_context.satiety_index = Q(3, 2)
    /\ args.nutritional_context.processing_level = "ultra_processed"
    /\ args.nutritional_context.liquid_percentage = I(1)
    /\ args.nutritional_context.protein_quality_score = Q(13, 10)
    /\ ret[1].protein # Ints(PROTEIN_THRESHOLDS)
    /\ ret[1].energy_density # Ints(ENERGY_DENSITY_THRESHOLDS)

\* C6: a BEVERAGE or DAIRY_BEVERAGE meal has fiber_points 0 whatever its fiber
\* and its nutritional context.
C6_BeverageFiberPointsZero ==
    \A i \in DOMAIN results :
        results[i].result.category \in {BEVERAGE, DAIRY_BEVERAGE}
            => results[i].result.component_score.fiber_points = 0

\* a beverage with fiber that would earn points in another category
C6_Witness ==
    \E i \in DOMAIN results :
        /\ results[i].result.category \in {BEVERAGE, DAIRY_BEVERAGE}
        /\ Lt(I(1), meal.fibre_total_dietary)
        /\ results[i].result.component_score.fiber_points = 0

\* C7: for every amount g, category and context, the points of g on the added
\* sugar thresholds times 1.3 are at least the points of g on the natural
\* sugar thresholds times 0.7.
C7_AddedSugarWeighsMore ==
    (fn = "_get_sugar_points" /\ ret # <<>>) =>
        Le(Mul(I(ret[1].sugar_natural_points), Q(7, 10)),
           Mul(I(ret[1].sugar_added_points), Q(13, 10)))

\* natural thresholds lowered for a liquid meal, added thresholds unchanged
C7_Witness ==
    /\ fn = "_get_sugar_points"
    /\ ret # <<>>
    /\ args.nutritional_context # NoContext
    /\ args.nutritional_context.liquid_percentage = I(1)
    /\ args.nutritional_context.processing_level = "processed"
    /\ ret[1].sugar_natural_points > 0
    /\ ret[1].sugar_natural_points = ret[1].sugar_added_points

C9_CoreNeverFails == error = None

\* C10: a Meal of an empty food list has category FOOD, confidence 0.0, an
\* empty-meal warning, and every aggregated nutrient and total_weight defined
\* and equal to 0.
C10_EmptyMealIsZero ==
    (meal # NoMeal /\ foods = <<>>) =>
        /\ meal.category = FOOD
        /\ meal.category_confidence = I(0)
        /\ \E w \in DOMAIN meal.category_warnings :
               meal.category_warnings[w] = "Empty meal - defaulting to FOOD category"
        /\ \A k \in {"energy_kilocalories", "energy_kj", "protein", "carbohydrate_total",
                     "fibre_total_dietary", "sugars_total", "fat_total",
                     "fatty_acids_saturated_total", "sodium", "calcium",
                     "fvnl_percent", "total_weight"} :
               meal[k] = I(0)

\* C11: a non-empty food list whose serving sizes sum to 0 gives a Meal (no
\* exception) with every aggregated per-100g nutrient 0 and a zero-total-weight
\* warning in category_warnings.
C11_ZeroWeightMealIsZero ==
    (/\ meal # NoMeal
     /\ foods # <<>>
     /\ \A i \in DOMAIN foods : foods[i].serving_size = I(0)) =>
        /\ error = None
        /\ \A k \in {"energy_kilocalories", "energy_kj", "protein", "carbohydrate_total",
                     "fibre_total_dietary", "sugars_total", "fat_total",
                     "fatty_acids_saturated_total", "sodium", "calcium",
                     "fvnl_percent"} :
               meal[k] = I(0)
        /\ \E w \in DOMAIN meal.category_warnings :
               meal.category_warnings[w] = "Meal has zero total weight"

\* two foods, both with serving_size 0, and a calculator built for the meal
C11_Witness ==
    /\ meal # NoMeal
    /\ Len(foods) = 2
    /\ foods[1].serving_size = I(0)
    /\ foods[2].serving_size = I(0)
    /\ foods[1].food_id # foods[2].food_id
    /\ meal.total_weight = I(0)
    /\ calcs # <<>>

C13_SingleFoodMeal ==
    (meal # NoMeal /\ categoryArg = None /\ Len(foods) = 1) =>
        /\ meal.category = foods[1].category
        /\ meal.category_confidence = I(1)
        /\ foods[1].food_group_id = 5 => meal.category = FOOD

\* a single food whose category is not the one the fitness analysis picks
C13_Witness ==
    /\ meal # NoMeal
    /\ categoryArg = None
    /\ Len(foods) = 1
    /\ meal.category_confidence = I(1)
    /\ Lt(I(0), foods[1].serving_size)
    /\ CategorizeAnalysed(foods, _analyze_meal_nutrition(foods)).recommended_category
           # meal.category

\* C20: in every component score baseline_points is the sum of the energy,
\* saturated fat, sugar and sodium points, sugar_points is the integer part of
\* natural points x 0.7 + added points x 1.3, and modifying_points is the sum
\* of the protein, fiber and FVNL points.
C20_ComponentSums ==
    \A i \in DOMAIN results :
        LET cs == results[i].result.component_score
        IN  /\ cs.baseline_points = cs.energy_points + cs.saturated_fat_points
                                        + cs.sugar_points + cs.sodium_points
            /\ cs.sugar_points * 10 <= 7 * cs.sugar_natural_points
                                           + 13 * cs.sugar_added_points
            /\ 7 * cs.sugar_natural_points + 13 * cs.sugar_added_points
                   < cs.sugar_points * 10 + 10
            /\ cs.modifying_points = cs.protein_points + cs.fiber_points + cs.fvnl_points

\* a result whose sugar blend has a fraction to drop and whose other terms count
C20_Witness ==
    \E i \in DOMAIN results :
        LET cs == results[i].result.component_score
        IN  /\ cs.sugar_natural_points > 0
            /\ cs.sugar_added_points > 0
            /\ (7 * cs.sugar_natural_points + 13 * cs.sugar_added_points) % 10 # 0
            /\ cs.energy_points > 0
            /\ cs.sodium_points > 0
            /\ cs.protein_points > 0
            /\ cs.modifying_points > cs.protein_points

\* C19: both adjustments lower the final score they are added to: the
\* satiety_adjustment of a result is <= 0 when the meal's satiety_index is above
\* 1.0 and >= 0 when it is below, and the naturalness_bonus is <= 0 for every
\* meal.
C19_AdjustmentsImproveScore ==
    \A i \in DOMAIN results :
        LET cs == results[i].result.component_score
            satiety_index == calcs[results[i].calculator].nutritional_context.satiety_index
        IN  /\ Lt(I(1), satiety_index) => Le(cs.satiety_adjustment, I(0))
            /\ Lt(satiety_index, I(1)) => Le(I(0), cs.satiety_adjustment)
            /\ Le(cs.naturalness_bonus, I(0))

\* C16 as claimed: for every ascending threshold list and every value the
\* points are the number of thresholds <= value, capped at len(thresholds) - 1.
C16_PointsCountThresholdsReached ==
    fn = "_get_points_by_thresholds" =>
        \A i \in DOMAIN ret :
            ret[i] = Min(Cardinality({j \in DOMAIN args.thresholds :
                                         Le(args.thresholds[j], args.values[i])}),
                         Len(args.thresholds) - 1)

\* C16, amended: for every non-empty ascending threshold list and every value
\* the points are the number of thresholds strictly below the value (a value
\* equal to a threshold has not passed it), capped at len(thresholds) - 1.
C16_PointsCountThresholdsBelow ==
    fn = "_get_points_by_thresholds" =>
        \A i \in DOMAIN ret :
            ret[i] = Min(Cardinality({j \in DOMAIN args.thresholds :
                                         Lt(args.thresholds[j], args.values[i])}),
                         Len(args.thresholds) - 1)

\* a value equal to a threshold below the cap, then a value past the last one
C16_Witness ==
    /\ fn = "_get_points_by_thresholds"
    /\ Len(ret) = 2
    /\ \E j \in DOMAIN args.thresholds :
           /\ args.values[1] = args.thresholds[j]
           /\ j > 1
           /\ Lt(args.thresholds[j - 1], args.thresholds[j])
           /\ ret[1] = j - 1
           /\ ret[1] < Len(args.thresholds) - 1
    /\ Lt(args.thresholds[Len(args.thresholds)], args.values[2])
    /\ ret[2] = Len(args.thresholds) - 1

\* C15: for every food group and every name in which an oil/spread keyword
\* occurs only inside a longer word, get_category returns OILS_AND_SPREADS only
\* if the food group's default mapping is OILS_AND_SPREADS.
C15_KeywordsMatchWholeWords ==
    (fn = "get_category" /\ ret # <<>> /\ args.food_name \in EmbeddedKeywordNames) =>
        (ret[1] = OILS_AND_SPREADS =>
            FOOD_GROUP_MAPPINGS(args.food_group_id) = OILS_AND_SPREADS)

\* "Rice, boiled" of food group 5: "boiled" contains "oil", the result is FOOD
C15_Witness ==
    /\ fn = "get_category"
    /\ ret = <<FOOD>>
    /\ args.food_group_id = 5
    /\ args.food_name = <<"R","i","c","e",","," ","b","o","i","l","e","d">>
    /\ Contains(lower(args.food_name), <<"o","i","l">>)

\* C18 as claimed: every food whose name holds an oil/spread keyword as a whole
\* word is OILS_AND_SPREADS, for every food group and whatever other keyword
\* the name holds.
C18_OilRuleUnconditional ==
    (fn = "get_category" /\ ret # <<>> /\ args.food_name \in WholeKeywordNames) =>
        ret[1] = OILS_AND_SPREADS

\* C18, amended: the oil/spread rule is tried for every food group, after the
\* rules of the food groups: a name with an oil/spread keyword as a whole word
\* gives CHEESE in group 1 with a cheese keyword, else DAIRY_BEVERAGE in group 1
\* or 14 with a dairy-beverage keyword, BEVERAGE in group 9 with a beverage
\* keyword, and OILS_AND_SPREADS in every other case.
C18_OilRuleAfterGroupRules ==
    (fn = "get_category" /\ ret # <<>> /\ args.food_name \in WholeKeywordNames) =>
        LET has(keywords) == \E kw \in keywords : SearchWord(args.food_name, kw)
        IN  ret[1] = IF args.food_group_id = 1 /\ has(CHEESE_KEYWORDS)
                         THEN CHEESE
                     ELSE IF args.food_group_id \in {1, 14} /\ has(DAIRY_BEVERAGE_KEYWORDS)
                         THEN DAIRY_BEVERAGE
                     ELSE IF args.food_group_id = 9 /\ has(BEVERAGE_KEYWORDS)
                         THEN BEVERAGE
                     ELSE OILS_AND_SPREADS

\* "Cheese spread" of food group 1: "spread" is a whole word, the result CHEESE
C18_Witness ==
    /\ fn = "get_category"
    /\ ret = <<CHEESE>>
    /\ args.food_group_id = 1
    /\ args.food_name = <<"C","h","e","e","s","e"," ","s","p","r","e","a","d">>
    /\ SearchWord(args.food_name, <<"s","p","r","e","a","d">>)

C17_FirstMatchingRuleDecides ==
    (fn = "determine_scientific_category" /\ ret # <<>>
     /\ ret[1].conflict_resolution.has_conflicts) =>
        LET conflicts == ret[1].conflict_resolution.conflicts
            nutrition == ret[1].scientific_factors
        IN  ret[1].recommended_category =
                IF Lt(Q(6, 10), nutrition.liquid_percentage)
                   /\ \E i \in DOMAIN conflicts : conflicts[i] \in {BEVERAGE, DAIRY_BEVERAGE}
                THEN FirstIn(conflicts, {BEVERAGE, DAIRY_BEVERAGE})
                ELSE IF Le(I(15), nutrition.protein) /\ Le(I(15), nutrition.fat_total)
                        /\ \E i \in DOMAIN conflicts : conflicts[i] \in {CHEESE, DAIRY_FOOD}
                THEN FirstIn(conflicts, {CHEESE, DAIRY_FOOD})
                ELSE IF Lt(I(500), nutrition.energy_kcal) /\ Lt(I(40), nutrition.fat_total)
                        /\ \E i \in DOMAIN conflicts : conflicts[i] = OILS_AND_SPREADS
                THEN OILS_AND_SPREADS
                ELSE IF \E i \in DOMAIN conflicts : conflicts[i] = FOOD
                THEN FOOD
                ELSE ret[1].conflict_resolution.top_category

C22_CategoryAdjustsAfterContext ==
    (fn = "get_thresholds" /\ ret # <<>>) =>
        LET t0 == [energy_density |-> BaseConstants.ENERGY_DENSITY_THRESHOLDS,
                   sugar_natural  |-> BaseConstants.NATURAL_SUGAR_THRESHOLDS,
                   sugar_added    |-> BaseConstants.ADDED_SUGAR_THRESHOLDS,
                   saturated_fat  |-> BaseConstants.SATURATED_FAT_THRESHOLDS,
                   sodium         |-> BaseConstants.SODIUM_THRESHOLDS,
                   fvnl           |-> BaseConstants.FVNL_THRESHOLDS,
                   protein        |-> BaseConstants.PROTEIN_THRESHOLDS,
                   fiber          |-> BaseConstants.FIBER_THRESHOLDS,
                   star_rating    |-> BaseConstants.STAR_RATING_THRESHOLDS,
                   base_stars     |-> I(0)]
            t == ret[1]
            changed == IF args.category = CHEESE THEN {"protein"}
                       ELSE IF args.category \in {BEVERAGE, DAIRY_BEVERAGE} THEN {"fiber"}
                       ELSE IF args.category = OILS_AND_SPREADS THEN {"energy_density"}
                       ELSE {}
        IN  \E adjusted \in {IF args.nutritional_context = NoContext THEN t0
                             ELSE _apply_contextual_adjustments(t0, args.nutritional_context)} :
                /\ \A k \in ThresholdNames \ changed : t[k] = adjusted[k]
                /\ args.category = CHEESE =>
                       \A i \in 1..11 :
                           t.protein[i] = IF Lt(adjusted.protein[i], I(2)) THEN I(0)
                                          ELSE Sub(adjusted.protein[i], I(2))
                /\ args.category \in {BEVERAGE, DAIRY_BEVERAGE} =>
                       \A i \in 1..11 : t.fiber[i] = INF
                /\ args.category = OILS_AND_SPREADS =>
                       \A i \in 1..11 :
                           t.energy_density[i] = Add(adjusted.energy_density[i], I(50))

\* CHEESE with protein_quality_score 2: the protein threshold 6 becomes
\* int(6 / 2) - 2 = 1, where the adjustments in the other order give 2, and the
\* threshold 3 becomes max(0, 1 - 2) = 0
C22_Witness ==
    /\ fn = "get_thresholds"
    /\ ret # <<>>
    /\ args.category = CHEESE
    /\ args.nutritional_context # NoContext
    /\ args.nutritional_context.protein_quality_score = I(2)
    /\ ret[1].protein[2] = I(0)
    /\ ret[1].protein[3] = I(1)

\* C23: the satiety_index of every calculator's NutritionalContext is 1.0
\* times the highest applicable protein tier (>= 20 / 15 / 10 -> 1.2 / 1.15 /
\* 1.1), times the highest applicable fiber tier (>= 10 / 6 / 3 -> 1.2 / 1.15 /
\* 1.1), times the liquid factor (liquid_percentage > 0.5 -> 0.7, else > 0.2
\* -> 0.85), with no other factor, clamped to [0.5, 1.5].
C23_SatietyHasThreeFactors ==
    \A c \in DOMAIN calcs :
        LET Tier(x, hi, mid, lo) ==
                IF Le(I(hi), x) THEN Q(12, 10)
                ELSE IF Le(I(mid), x) THEN Q(115, 100)
                ELSE IF Le(I(lo), x) THEN Q(11, 10)
                ELSE I(1)
            LiquidFactor(l) ==
                IF Lt(Q(1, 2), l) THEN Q(7, 10)
                ELSE IF Lt(Q(1, 5), l) THEN Q(85, 100)
                ELSE I(1)
        IN  calcs[c].nutritional_context.satiety_index =
                Clamp(Q(1, 2), Q(3, 2), Mul(Mul(Tier(calcs[c].meal.protein, 20, 15, 10),
                              Tier(calcs[c].meal.fibre_total_dietary, 10, 6, 3)),
                          LiquidFactor(calcs[c].nutritional_context.liquid_percentage)))

\* C23 as amended: the product has a fourth factor, 0.9, when more than half
\* of the meal's foods are ultra_processed by the calculator's per-food test.
C23_SatietyHasProcessingFactor ==
    \A c \in DOMAIN calcs :
        LET Tier(x, hi, mid, lo) ==
                IF Le(I(hi), x) THEN Q(12, 10)
                ELSE IF Le(I(mid), x) THEN Q(115, 100)
                ELSE IF Le(I(lo), x) THEN Q(11, 10)
                ELSE I(1)
            LiquidFactor(l) ==
                IF Lt(Q(1, 2), l) THEN Q(7, 10)
                ELSE IF Lt(Q(1, 5), l) THEN Q(85, 100)
                ELSE I(1)
            ProcessingFactor(foodlist) ==
                IF 2 * Cardinality({i \in DOMAIN foodlist :
                           _determine_processing_level(foodlist[i]) = "ultra_processed"})
                       > Len(foodlist)
                THEN Q(9, 10) ELSE I(1)
        IN  calcs[c].nutritional_context.satiety_index =
                Clamp(Q(1, 2), Q(3, 2), Mul(Mul(Mul(Tier(calcs[c].meal.protein, 20, 15, 10),
                                  Tier(calcs[c].meal.fibre_total_dietary, 10, 6, 3)),
                              LiquidFactor(calcs[c].nutritional_context.liquid_percentage)),
                          ProcessingFactor(foods)))

\* a calculator for a meal whose only food is an ultra-processed soft drink:
\* 0.7 for the liquid times 0.9 for the processing, inside the clamp
C23_Witness ==
    /\ Len(calcs) > 0
    /\ Len(foods) = 1
    /\ _determine_processing_level(foods[1]) = "ultra_processed"
    /\ calcs[1].nutritional_context.liquid_percentage = I(1)
    /\ calcs[1].nutritional_context.satiety_index = Q(63, 100)

\* C24: the processing_level of every calculator's NutritionalContext is the
\* level that name-keyword scores give (raw/fresh/whole/natural -> 1,
\* canned/frozen/dried/cooked -> 2, processed/enriched/flavored/instant -> 3,
\* 2 when no keyword matches), averaged over the foods, with an average
\* <= 1.3 minimally_processed, <= 2.3 processed and ultra_processed otherwise.
C24_ProcessingLevelFromNameScores ==
    \A c \in DOMAIN calcs :
        calcs[c].nutritional_context.processing_level =
            _assess_overall_processing_level(foods)

\* C24 as amended: each food has the level of the calculator's indicator
\* test (ultra_processed, else processed, else minimally_processed), the
\* levels score 3, 2 and 1, and the average of the scores over the foods gives
\* ultra_processed if >= 2.5, processed if >= 1.5, and minimally_processed
\* otherwise.
C24_ProcessingLevelFromIndicators ==
    \A c \in DOMAIN calcs :
        LET Count(foodlist, level) ==
                Cardinality({i \in DOMAIN foodlist :
                                _determine_processing_level(foodlist[i]) = level})
            Total(foodlist, n) ==
                3 * Count(foodlist, "ultra_processed") + 2 * Count(foodlist, "processed")
                    + (n - Count(foodlist, "ultra_processed") - Count(foodlist, "processed"))
        IN  calcs[c].nutritional_context.processing_level =
                IF 2 * Total(foods, Len(foods)) >= 5 * Len(foods) THEN "ultra_processed"
                ELSE IF 2 * Total(foods, Len(foods)) >= 3 * Len(foods) THEN "processed"
                ELSE "minimally_processed"

\* a calculator for two raw foods and a canned one: the average 4/3 lies
\* between the cut-offs 1.3 and 1.5 and the context is minimally_processed
C24_Witness ==
    /\ Len(calcs) > 0
    /\ Len(foods) = 3
    /\ _determine_processing_level(foods[1]) = "minimally_processed"
    /\ _determine_processing_level(foods[2]) = "minimally_processed"
    /\ _determine_processing_level(foods[3]) = "processed"
    /\ calcs[1].nutritional_context.processing_level = "minimally_processed"

C26_ConfidenceBonusAtMostFifth ==
    (fn = "determine_scientific_category" /\ ret # <<>> /\ Len(args.foods) >= 2) =>
        LET EnergyBonus(profile, a) ==
                IF Le(profile.expected_energy_range[1], a.energy_kcal)
                   /\ Le(a.energy_kcal, profile.expected_energy_range[2])
                THEN Q(1, 10) ELSE I(0)
            LiquidBonus(profile, a) ==
                IF (profile.liquid = "min"
                       /\ Le(profile.liquid_percentage, a.liquid_percentage))
                   \/ (profile.liquid # "min"
                       /\ Le(a.liquid_percentage, profile.liquid_percentage))
                THEN Q(1, 10) ELSE I(0)
            ProcessingBonus(profile) ==
                IF profile.processing_tolerance = "any" THEN Q(5, 100) ELSE I(0)
            Bonus(profile, a) ==
                Add(Add(EnergyBonus(profile, a), LiquidBonus(profile, a)),
                    ProcessingBonus(profile))
            Penalty(a) ==
                Add(IF Eq(a.protein, I(0)) THEN Q(5, 100) ELSE I(0),
                    IF Eq(a.fiber, I(0)) THEN Q(3, 100) ELSE I(0))
            Confidence(r, profile) ==
                Clamp(Q(1, 10), I(1),
                      Sub(Add(r.category_fitness[r.recommended_category],
                              MinQ(Q(2, 10), Bonus(profile, r.scientific_factors))),
                          Penalty(r.scientific_factors)))
        IN  ret[1].confidence =
                Confidence(ret[1], CATEGORY_NUTRITIONAL_PROFILES(ret[1].recommended_category))

\* C26 as amended: the consistency bonus is the sum of its three parts and is
\* at most 0.25.
C26_ConfidenceBonusAtMostQuarter ==
    (fn = "determine_scientific_category" /\ ret # <<>> /\ Len(args.foods) >= 2) =>
        LET EnergyBonus(profile, a) ==
                IF Le(profile.expected_energy_range[1], a.energy_kcal)
                   /\ Le(a.energy_kcal, profile.expected_energy_range[2])
                THEN Q(1, 10) ELSE I(0)
            LiquidBonus(profile, a) ==
                IF (profile.liquid = "min"
                       /\ Le(profile.liquid_percentage, a.liquid_percentage))
                   \/ (profile.liquid # "min"
                       /\ Le(a.liquid_percentage, profile.liquid_percentage))
                THEN Q(1, 10) ELSE I(0)
            ProcessingBonus(profile) ==
                IF profile.processing_tolerance = "any" THEN Q(5, 100) ELSE I(0)
            Bonus(profile, a) ==
                Add(Add(EnergyBonus(profile, a), LiquidBonus(profile, a)),
                    ProcessingBonus(profile))
            Penalty(a) ==
                Add(IF Eq(a.protein, I(0)) THEN Q(5, 100) ELSE I(0),
                    IF Eq(a.fiber, I(0)) THEN Q(3, 100) ELSE I(0))
            Confidence(r, profile) ==
                Clamp(Q(1, 10), I(1),
                      Sub(Add(r.category_fitness[r.recommended_category],
                              Bonus(profile, r.scientific_factors)),
                          Penalty(r.scientific_factors)))
        IN  /\ Le(Bonus(CATEGORY_NUTRITIONAL_PROFILES(ret[1].recommended_category),
                        ret[1].scientific_factors), Q(25, 100))
            /\ ret[1].confidence =
                   Confidence(ret[1], CATEGORY_NUTRITIONAL_PROFILES(ret[1].recommended_category))

\* 250 g of olive oil with 50 g of soft drink: FOOD is chosen with a fitness
\* of 71/81, protein and fiber are 0, and the three parts of the bonus make
\* 0.25, which brings the confidence to the upper clamp where 0.2 would not
C26_Witness ==
    /\ fn = "determine_scientific_category"
    /\ ret # <<>>
    /\ Len(args.foods) = 2
    /\ ret[1].recommended_category = FOOD
    /\ ret[1].category_fitness[FOOD] = Q(71, 81)
    /\ Eq(ret[1].scientific_factors.protein, I(0))
    /\ Eq(ret[1].scientific_factors.fiber, I(0))
    /\ Le(I(50), ret[1].scientific_factors.energy_kcal)
    /\ Le(ret[1].scientific_factors.energy_kcal, I(800))
    /\ Le(ret[1].scientific_factors.liquid_percentage, Q(3, 10))
    /\ ret[1].confidence = I(1)

C28_MealLeavesFoods ==
    [][(meal = NoMeal /\ meal' # NoMeal) => foods' = foods]_vars

\* C29: in every result the points reported in nutrient_analyses for Energy
\* Density, Saturated Fat, Sodium, Protein, Fiber and FVNL are the energy,
\* saturated fat, sodium, protein, fiber and FVNL points of component_score.
C29_AnalysisPointsAreComponentPoints ==
    \A i \in DOMAIN results :
        LET Reported(r, name) ==
                {r.nutrient_analyses[k].points :
                    k \in {j \in DOMAIN r.nutrient_analyses :
                              r.nutrient_analyses[j].nutrient_name = name}}
        IN  /\ Reported(results[i].result, "Energy Density")
                   = {results[i].result.component_score.energy_points}
            /\ Reported(results[i].result, "Saturated Fat")
                   = {results[i].result.component_score.saturated_fat_points}
            /\ Reported(results[i].result, "Sodium")
                   = {results[i].result.component_score.sodium_points}
            /\ Reported(results[i].result, "Protein")
                   = {results[i].result.component_score.protein_points}
            /\ Reported(results[i].result, "Fiber")
                   = {results[i].result.component_score.fiber_points}
            /\ Reported(results[i].result, "FVNL")
                   = {results[i].result.component_score.fvnl_points}

\* C30: for a meal of two or more foods the category the categorizer chooses
\* has the highest fitness or a fitness less than 0.15 below the highest, and
\* when no other category is within 0.15 of the highest-fitness category the
\* chosen category is that one.
C30_ChosenIsNearTop ==
    (fn = "determine_scientific_category" /\ ret # <<>> /\ Len(args.foods) >= 2) =>
        LET IsTop(f, t) == \A c \in Categories : Le(f[c], f[t])
            Alone(f, t) == \A c \in Categories \ {t} : ~Lt(Sub(f[t], f[c]), Q(15, 100))
        IN  /\ \E t \in Categories :
                   /\ IsTop(ret[1].category_fitness, t)
                   /\ Lt(Sub(ret[1].category_fitness[t],
                             ret[1].category_fitness[ret[1].recommended_category]),
                         Q(15, 100))
            /\ \A t \in Categories :
                   (IsTop(ret[1].category_fitness, t) /\ Alone(ret[1].category_fitness, t))
                       => ret[1].recommended_category = t

\* a tie-break that chose a category of lower fitness than the top one
C30_Witness ==
    /\ fn = "determine_scientific_category"
    /\ ret # <<>>
    /\ Len(args.foods) = 2
    /\ ret[1].conflict_resolution.has_conflicts
    /\ ret[1].recommended_category # ret[1].conflict_resolution.top_category
    /\ Lt(ret[1].category_fitness[ret[1].recommended_category],
          ret[1].conflict_resolution.top_score)

====
